---------------------------- MODULE Spec2Model ----------------------------
(***************************************************************************)
(* Model of the IDML news extraction engine (src/native_parser.py):        *)
(* IDMLNewsExtractor.extract_news_articles and the helpers it calls.       *)
(*                                                                         *)
(* Text is a TLA+ string; Len, SubSeq and \o act on strings as they do on  *)
(* sequences, so the regular expressions of the source are modelled        *)
(* character by character.  Only ASCII text is modelled.  Font sizes are   *)
(* whole points.  Scores are exact rationals [n, d] (value n / d).         *)
(***************************************************************************)
EXTENDS Integers, Sequences, FiniteSets, TLC

(***************************************************************************)
(* Characters and the character classes of Python's re module (ASCII).     *)
(***************************************************************************)
DigitStr == "0123456789"

Chr(s, i) == SubSeq(s, i, i)

UpperChars ==
    {"A", "B", "C", "D", "E", "F", "G", "H", "I", "J", "K", "L", "M",
     "N", "O", "P", "Q", "R", "S", "T", "U", "V", "W", "X", "Y", "Z"}
LowerChars ==
    {"a", "b", "c", "d", "e", "f", "g", "h", "i", "j", "k", "l", "m",
     "n", "o", "p", "q", "r", "s", "t", "u", "v", "w", "x", "y", "z"}
DigitChars == {"0", "1", "2", "3", "4", "5", "6", "7", "8", "9"}
SpaceChars == {" ", "\t", "\n", "\r"}

\* str.isalpha() on one character; under re.IGNORECASE [A-Z] and [a-z] both mean this
IsAlpha(c) == c \in UpperChars \/ c \in LowerChars
IsUpper(c) == c \in UpperChars
IsLower(c) == c \in LowerChars
IsDigit(c) == c \in DigitChars
IsSpace(c) == c \in SpaceChars
\* \w of the re module
IsWordChar(c) == IsAlpha(c) \/ IsDigit(c) \/ c = "_"

\* the lower-case letter of an upper-case one
lowerOf ==
    [c \in UpperChars |->
    CASE c = "A" -> "a" []
         c = "B" -> "b" []
         c = "C" -> "c" []
         c = "D" -> "d" []
         c = "E" -> "e" []
         c = "F" -> "f" []
         c = "G" -> "g" []
         c = "H" -> "h" []
         c = "I" -> "i" []
         c = "J" -> "j" []
         c = "K" -> "k" []
         c = "L" -> "l" []
         c = "M" -> "m" []
         c = "N" -> "n" []
         c = "O" -> "o" []
         c = "P" -> "p" []
         c = "Q" -> "q" []
         c = "R" -> "r" []
         c = "S" -> "s" []
         c = "T" -> "t" []
         c = "U" -> "u" []
         c = "V" -> "v" []
         c = "W" -> "w" []
         c = "X" -> "x" []
         c = "Y" -> "y" []
         c = "Z" -> "z"]

\* int() of one digit
digitOf ==
    [c \in DigitChars |->
    CASE c = "0" -> 0 []
         c = "1" -> 1 []
         c = "2" -> 2 []
         c = "3" -> 3 []
         c = "4" -> 4 []
         c = "5" -> 5 []
         c = "6" -> 6 []
         c = "7" -> 7 []
         c = "8" -> 8 []
         c = "9" -> 9]

LowerChr(c) == IF c \in UpperChars THEN lowerOf[c] ELSE c

Min(a, b) == IF a < b THEN a ELSE b
Max(a, b) == IF a > b THEN a ELSE b

\* s[i:] of Python with a 1-based i
From(s, i) == SubSeq(s, i, Len(s))
\* s[:n]
Take(s, n) == SubSeq(s, 1, Min(n, Len(s)))

RECURSIVE LowerRange(_, _, _)
\* the characters lo..hi of s in lower case (by halves: long text is no deep recursion)
LowerRange(s, lo, hi) ==
    IF lo > hi THEN ""
    ELSE IF lo = hi THEN LowerChr(Chr(s, lo))
    ELSE LowerRange(s, lo, (lo + hi) \div 2) \o LowerRange(s, (lo + hi) \div 2 + 1, hi)
\* str.lower()
Lower(s) == LowerRange(s, 1, Len(s))

\* the character classes a pattern repeats
InClass(class, c) ==
    CASE class = "alpha" -> IsAlpha(c)
      [] class = "lower" -> IsLower(c)
      [] class = "digit" -> IsDigit(c)
      [] class = "word"  -> IsWordChar(c)
      [] class = "space" -> IsSpace(c)

RECURSIVE Span(_, _, _)
\* the position after the longest run, from i on, of characters of the class:
\* class* matched greedily at i (looked at sixteen characters at a time)
Span(class, s, i) ==
    LET hi == Min(i + 15, Len(s))
        stops == {k \in i..hi : ~InClass(class, Chr(s, k))}
    IN  IF stops # {} THEN CHOOSE k \in stops : \A m \in stops : k <= m
        ELSE IF hi >= Len(s) THEN Max(i, Len(s) + 1)
        ELSE Span(class, s, hi + 1)

\* the position after \s* matched greedily at i
SkipSpaces(s, i) == Span("space", s, i)

RECURSIVE LastNonSpace(_, _)
LastNonSpace(s, i) ==
    IF i >= 1 /\ IsSpace(Chr(s, i)) THEN LastNonSpace(s, i - 1) ELSE i

\* str.strip()
Strip(s) == SubSeq(s, SkipSpaces(s, 1), LastNonSpace(s, Len(s)))

\* s.startswith(p) at position i, and its re.IGNORECASE form
LitAt(s, i, p) == i + Len(p) - 1 <= Len(s) /\ SubSeq(s, i, i + Len(p) - 1) = p
LitAtCI(s, i, p) ==
    i + Len(p) - 1 <= Len(s) /\ Lower(SubSeq(s, i, i + Len(p) - 1)) = Lower(p)

\* the first position at which p occurs in s, 0 when it does not: s.find(p) + 1
Find(s, p) ==
    LET hits == {i \in 1..(Len(s) - Len(p) + 1) : Chr(s, i) = Chr(p, 1) /\ LitAt(s, i, p)}
    IN  IF hits = {} THEN 0 ELSE CHOOSE i \in hits : \A k \in hits : i <= k
\* p in s
Contains(s, p) == Find(s, p) > 0

RECURSIVE JoinFrom(_, _, _)
JoinFrom(parts, sep, i) ==
    IF i > Len(parts) THEN ""
    ELSE IF i = Len(parts) THEN parts[i]
    ELSE parts[i] \o sep \o JoinFrom(parts, sep, i + 1)
\* sep.join(parts)
Join(parts, sep) == JoinFrom(parts, sep, 1)

\* the position after [A-Za-z]*, [a-z]*, \d*, \w* matched greedily at i
SpanAlpha(s, i) == Span("alpha", s, i)
SpanLower(s, i) == Span("lower", s, i)
SpanDigit(s, i) == Span("digit", s, i)
SpanWord(s, i) == Span("word", s, i)

\* \b at position i (between the characters i-1 and i)
WordBoundary(s, i) ==
    LET before == i > 1 /\ i - 1 <= Len(s) /\ IsWordChar(Chr(s, i - 1))
        after  == i >= 1 /\ i <= Len(s) /\ IsWordChar(Chr(s, i))
    IN  before # after

\* the positions at which a maximal run of \w characters starts
WordStarts(s) == {i \in 1..Len(s) : IsWordChar(Chr(s, i)) /\ WordBoundary(s, i)}

RECURSIVE ParseDigits(_, _, _)
ParseDigits(s, i, acc) ==
    IF i > Len(s) THEN acc ELSE ParseDigits(s, i + 1, 10 * acc + digitOf[Chr(s, i)])
\* int(s) of a string of digits
ParseInt(s) == ParseDigits(s, 1, 0)

(***************************************************************************)
(* Pieces of the regular expressions.  A matcher takes the text and the    *)
(* position to match at and gives the position after the match, 0 when     *)
(* there is none.  ci is re.IGNORECASE.  Every piece is followed in its    *)
(* pattern by a character outside the class it repeats (or by nothing), so *)
(* the greedy match is the only one backtracking can end with.             *)
(***************************************************************************)
\* \s+
Spaces1(s, i) == IF i >= 1 /\ i <= Len(s) /\ IsSpace(Chr(s, i)) THEN SkipSpaces(s, i + 1) ELSE 0

\* [A-Z][a-z]+
CapWord(s, i, ci) ==
    IF i >= 1 /\ i + 1 <= Len(s)
       /\ (IF ci THEN IsAlpha(Chr(s, i)) ELSE IsUpper(Chr(s, i)))
       /\ (IF ci THEN IsAlpha(Chr(s, i + 1)) ELSE IsLower(Chr(s, i + 1)))
    THEN (IF ci THEN SpanAlpha(s, i + 2) ELSE SpanLower(s, i + 2))
    ELSE 0

RECURSIVE CapWordsTail(_, _, _)
\* (?:\s+[A-Z][a-z]+)* after a match that ended at e
CapWordsTail(s, e, ci) ==
    LET sp == Spaces1(s, e)
        w  == IF sp = 0 THEN 0 ELSE CapWord(s, sp, ci)
    IN  IF w = 0 THEN e ELSE CapWordsTail(s, w, ci)

\* [A-Z][a-z]+(?:\s+[A-Z][a-z]+)*
CapName(s, i, ci) ==
    LET w == CapWord(s, i, ci) IN IF w = 0 THEN 0 ELSE CapWordsTail(s, w, ci)

\* \s+and\s+ (the literal follows the flag)
AndSep(s, e, ci) ==
    LET sp == Spaces1(s, e)
    IN  IF sp # 0 /\ (IF ci THEN LitAtCI(s, sp, "and") ELSE LitAt(s, sp, "and"))
        THEN Spaces1(s, sp + 3) ELSE 0

RECURSIVE AndNamesTail(_, _, _)
\* (?:\s+and\s+[A-Z][a-z]+(?:\s+[A-Z][a-z]+)*)* after a match that ended at e
AndNamesTail(s, e, ci) ==
    LET a == AndSep(s, e, ci)
        n == IF a = 0 THEN 0 ELSE CapName(s, a, ci)
    IN  IF n = 0 THEN e ELSE AndNamesTail(s, n, ci)

\* [A-Z][a-z]+(?:\s+[A-Z][a-z]+)*(?:\s+and\s+[A-Z][a-z]+(?:\s+[A-Z][a-z]+)*)*
CapNames(s, i, ci) ==
    LET n == CapName(s, i, ci) IN IF n = 0 THEN 0 ELSE AndNamesTail(s, n, ci)

\* [A-Z][a-z]+-[A-Z][a-z]+(?:\s+[A-Z][a-z]+)*
HyphenName(s, i) ==
    LET w1 == CapWord(s, i, FALSE)
        w2 == IF w1 # 0 /\ LitAt(s, w1, "-") THEN CapWord(s, w1 + 1, FALSE) ELSE 0
    IN  IF w2 = 0 THEN 0 ELSE CapWordsTail(s, w2, FALSE)

RECURSIVE AndHyphenTail(_, _)
AndHyphenTail(s, e) ==
    LET a == AndSep(s, e, FALSE)
        n == IF a = 0 THEN 0 ELSE HyphenName(s, a)
    IN  IF n = 0 THEN e ELSE AndHyphenTail(s, n)

\* the hyphenated-surname pattern of _extract_author_from_body
HyphenNames(s, i) ==
    LET n == HyphenName(s, i) IN IF n = 0 THEN 0 ELSE AndHyphenTail(s, n)

(***************************************************************************)
(* The story markup.  A story file is                                      *)
(*   [Self, wf, paras]: the Self attribute of its Story element, whether   *)
(*   the bytes parse ("ok"), are not well-formed ("malformed": ET raises   *)
(*   ParseError) or parse but hold no Story element ("nostory": .find      *)
(*   gives None and .get raises AttributeError), and its                   *)
(*   ParagraphStyleRange elements in document order;                       *)
(* a ParagraphStyleRange is the sequence of its CharacterStyleRange        *)
(*   elements;                                                             *)
(* a CharacterStyleRange is [PointSize, FontStyle, children], an attribute *)
(*   being Absent when the element does not carry it;                      *)
(* a child is [tag, text] with tag "Content" or "Br".                      *)
(***************************************************************************)
Absent == "<absent>"

\* element.get(name, default)
GetAttr(value, default) == IF value = Absent THEN default ELSE value

Content(t) == [tag |-> "Content", text |-> t]
Br == [tag |-> "Br", text |-> ""]
Run(size, style, children) == [PointSize |-> size, FontStyle |-> style, children |-> children]

\* float(font_size_str) with the ValueError branch: a string of digits is its
\* value, anything else gives the default 12.0 (whole sizes only)
FontSizeOf(font_size_str) ==
    IF font_size_str # "" /\ SpanDigit(font_size_str, 1) = Len(font_size_str) + 1
    THEN ParseInt(font_size_str)
    ELSE 12

\* char_range.findall("Content")
ContentsOf(char_range) == SelectSeq(char_range.children, LAMBDA c : c.tag = "Content")

\* any(c.isalpha() for c in text)
AnyAlpha(text) == \E i \in 1..Len(text) : IsAlpha(Chr(text, i))

\* one character of [a-zA-Z0-9\s\-_&,\.]
IsCategoryChar(c) == IsAlpha(c) \/ IsDigit(c) \/ IsSpace(c) \/ c \in {"-", "_", "&", ",", "."}

\* A validator without the "must contain at least one letter" test.
_is_valid_category_NoLetterCheck(text0) ==
    LET text == Strip(text0)
    IN  /\ text # ""
        /\ \A i \in 1..Len(text) : IsCategoryChar(Chr(text, i))
        /\ ~(Len(text) < 1 \/ Len(text) > 30)
        /\ ~(Contains(text, "@") \/ Contains(Lower(text), "http"))

_is_valid_category(text0) ==
    LET text == Strip(text0)
    IN  /\ text # ""
        /\ AnyAlpha(text)
        /\ \A i \in 1..Len(text) : IsCategoryChar(Chr(text, i))
        /\ ~(Len(text) < 1 \/ Len(text) > 30)
        /\ ~(Contains(text, "@") \/ Contains(Lower(text), "http"))

\* A category part that must be a single word.
_extract_category_from_story_OneWord(root) ==
    IF Len(root.paras) = 1
       /\ Len(root.paras[1]) = 1
       /\ Len(ContentsOf(root.paras[1][1])) = 1
       /\ ContentsOf(root.paras[1][1])[1].text # ""
    THEN LET category_text == Strip(ContentsOf(root.paras[1][1])[1].text)
         IN  IF Len(category_text) > 0 /\ Len(category_text) <= 30
                /\ ~Contains(category_text, " ")
                /\ _is_valid_category(category_text)
             THEN category_text
             ELSE ""
    ELSE ""

_extract_category_from_story(root) ==
    IF Len(root.paras) = 1
       /\ Len(root.paras[1]) = 1
       /\ Len(ContentsOf(root.paras[1][1])) = 1
       /\ ContentsOf(root.paras[1][1])[1].text # ""
    THEN LET category_text == Strip(ContentsOf(root.paras[1][1])[1].text)
         IN  IF Len(category_text) > 0 /\ Len(category_text) <= 30
                /\ ~LitAt(category_text, 1, "\n")
                /\ _is_valid_category(category_text)
             THEN category_text
             ELSE ""
    ELSE ""

_is_category_marker(root) ==
    /\ Len(root.paras) = 1
    /\ Len(root.paras[1]) = 1
    /\ Len(ContentsOf(root.paras[1][1])) = 1
    /\ ContentsOf(root.paras[1][1])[1].text # ""
    /\ LET text == Strip(ContentsOf(root.paras[1][1])[1].text)
       IN  Len(text) > 0 /\ Len(text) <= 30

(***************************************************************************)
(* _parse_news_story.  The three loops run over an accumulator             *)
(* [content_data, paragraphs, para_content].                               *)
(***************************************************************************)
\* A loop body in which a line break does not flush the paragraph buffer.
ParseChild_BrNoFlush(acc, char_range, child, para_range_index) ==
    IF child.tag = "Content" /\ child.text # ""
    THEN LET text_content == Strip(child.text)
             font_style == GetAttr(char_range.FontStyle, "Regular")
         IN  IF text_content # ""
             THEN [acc EXCEPT
                     !.content_data = Append(@,
                        [text |-> text_content,
                         font_size |-> FontSizeOf(GetAttr(char_range.PointSize, "12")),
                         font_style |-> font_style,
                         is_bold |-> Contains(font_style, "Bold"),
                         is_italic |-> Contains(font_style, "Italic"),
                         paragraph_range_index |-> para_range_index]),
                     !.para_content = Append(@, text_content)]
             ELSE acc
    ELSE acc

ParseChild(acc, char_range, child, para_range_index) ==
    IF child.tag = "Content" /\ child.text # ""
    THEN LET text_content == Strip(child.text)
             font_style == GetAttr(char_range.FontStyle, "Regular")
         IN  IF text_content # ""
             THEN [acc EXCEPT
                     !.content_data = Append(@,
                        [text |-> text_content,
                         font_size |-> FontSizeOf(GetAttr(char_range.PointSize, "12")),
                         font_style |-> font_style,
                         is_bold |-> Contains(font_style, "Bold"),
                         is_italic |-> Contains(font_style, "Italic"),
                         paragraph_range_index |-> para_range_index]),
                     !.para_content = Append(@, text_content)]
             ELSE acc
    ELSE IF child.tag = "Br"
    THEN IF acc.para_content # <<>>
         THEN [acc EXCEPT !.paragraphs = Append(@, Join(acc.para_content, " ")),
                          !.para_content = <<>>]
         ELSE acc
    ELSE acc

RECURSIVE ParseChildren(_, _, _, _)
ParseChildren(acc, char_range, k, para_range_index) ==
    IF k > Len(char_range.children) THEN acc
    ELSE ParseChildren(ParseChild(acc, char_range, char_range.children[k], para_range_index),
                       char_range, k + 1, para_range_index)

RECURSIVE ParseCharRanges(_, _, _, _)
ParseCharRanges(acc, para_range, r, para_range_index) ==
    IF r > Len(para_range) THEN acc
    ELSE ParseCharRanges(ParseChildren(acc, para_range[r], 1, para_range_index),
                         para_range, r + 1, para_range_index)

\* one turn of the loop over para_ranges: the buffer starts empty and what is
\* left of it is flushed at the end
ParseParaRange(acc, para_range, para_range_index) ==
    LET a == ParseCharRanges([acc EXCEPT !.para_content = <<>>], para_range, 1, para_range_index)
    IN  IF a.para_content # <<>>
        THEN [a EXCEPT !.paragraphs = Append(@, Join(a.para_content, " ")), !.para_content = <<>>]
        ELSE a

RECURSIVE ParseParaRanges(_, _, _)
ParseParaRanges(acc, para_ranges, p) ==
    IF p > Len(para_ranges) THEN acc
    ELSE ParseParaRanges(ParseParaRange(acc, para_ranges[p], p), para_ranges, p + 1)

\* What a call gives: a dict, None, or an exception that leaves the call.
NoneResult == [kind |-> "None"]
Raised == [kind |-> "raise"]
Dict(d) == [kind |-> "dict", dict |-> d]

_parse_news_story(xml_content, filename) ==
    IF xml_content.wf = "malformed" THEN NoneResult   \* except ET.ParseError
    ELSE LET category == _extract_category_from_story(xml_content)
             acc == ParseParaRanges([content_data |-> <<>>, paragraphs |-> <<>>,
                                     para_content |-> <<>>], xml_content.paras, 1)
         IN  IF acc.content_data = <<>> THEN NoneResult
             ELSE IF xml_content.wf = "nostory" THEN Raised   \* None.get: AttributeError
             ELSE Dict([story_id |-> xml_content.Self,
                        filename |-> filename,
                        content_elements |-> acc.content_data,
                        raw_content |-> Join(acc.paragraphs, " "),
                        full_text |-> Join(acc.paragraphs, "\n"),
                        paragraphs |-> acc.paragraphs,
                        category |-> category])

(***************************************************************************)
(* The story classifier.                                                   *)
(***************************************************************************)
\* stands for the bullet U+2022 of the pattern ^•L-R: (the text here is ASCII)
Bullet == "#"

\* ^MONDAY,.*\d{4}$ under re.IGNORECASE
IsDateline(text) ==
    /\ LitAtCI(text, 1, "MONDAY,")
    /\ Len(text) >= 11
    /\ \A i \in (Len(text) - 3)..Len(text) : IsDigit(Chr(text, i))
    /\ \A i \in 8..(Len(text) - 4) : Chr(text, i) # "\n"

_is_metadata_content(text0) ==
    LET text == Strip(text0)
    IN  \/ Len(text) < 3
        \/ Lower(text) = "news"
        \/ LitAtCI(text, 1, "All stories continued on")
        \/ LitAtCI(text, 1, Bullet \o "L-R:")
        \/ SkipSpaces(text, 1) = Len(text) + 1
        \/ IsDateline(text)
        \/ (Len(text) \in {1, 2} /\ SpanDigit(text, 1) = Len(text) + 1)
        \/ LitAtCI(text, 1, "Photo:")
        \/ LitAtCI(text, 1, "Continued from")

_looks_like_author_line(text0) ==
    LET text == Strip(text0)
        n    == CapName(text, 1, FALSE)
        sp   == IF n # 0 /\ LitAt(text, n, ",") THEN Spaces1(text, n + 1) ELSE 0
        by   == IF LitAt(text, 1, "By") THEN Spaces1(text, 3) ELSE 0
    IN  \/ (sp # 0 /\ CapWord(text, sp, FALSE) # 0)
        \/ (by # 0 /\ CapWord(text, by, FALSE) # 0)

RECURSIVE SumFontSizes(_, _)
\* sum(elem['font_size'] for elem in content_elements), from element k on
SumFontSizes(content_elements, k) ==
    IF k > Len(content_elements) THEN 0
    ELSE content_elements[k].font_size + SumFontSizes(content_elements, k + 1)

\* A classifier whose length test is "at most 100" and not "under 100".
_determine_story_type_Leq100(story) ==
    LET content_elements == story.content_elements
        raw_content == story.raw_content
        total == SumFontSizes(content_elements, 1)
        count == Len(content_elements)
        has_bold == \E k \in 1..Len(content_elements) : content_elements[k].is_bold
        text_length == Len(raw_content)
        paragraph_count == Len(story.paragraphs)
    IN  IF content_elements = <<>> THEN "unknown"
        ELSE IF total >= 15 * count /\ has_bold /\ text_length <= 100 /\ paragraph_count <= 1
        THEN "headline"
        ELSE IF total < 15 * count /\ text_length > 50 /\ paragraph_count > 1
        THEN "body_content"
        ELSE IF _looks_like_author_line(raw_content) THEN "body_content"
        ELSE "unknown"

\* The average font size is the rational SumFontSizes / len: "avg >= 15" is
\* "sum >= 15 * len".
_determine_story_type(story) ==
    LET content_elements == story.content_elements
        raw_content == story.raw_content
        total == SumFontSizes(content_elements, 1)
        count == Len(content_elements)
        has_bold == \E k \in 1..Len(content_elements) : content_elements[k].is_bold
        text_length == Len(raw_content)
        paragraph_count == Len(story.paragraphs)
    IN  IF content_elements = <<>> THEN "unknown"
        ELSE IF total >= 15 * count /\ has_bold /\ text_length < 100 /\ paragraph_count <= 1
        THEN "headline"
        ELSE IF total < 15 * count /\ text_length > 50 /\ paragraph_count > 1
        THEN "body_content"
        ELSE IF _looks_like_author_line(raw_content) THEN "body_content"
        ELSE "unknown"

(***************************************************************************)
(* The author extractor.                                                   *)
(***************************************************************************)
\* re.sub(r',.*$', '', name)
CutAtComma(name) ==
    LET c == Find(name, ",") IN IF c = 0 THEN name ELSE SubSeq(name, 1, c - 1)

\* group(1) of the first of the five author patterns that matches at the start
\* of the paragraph; [found |-> FALSE] when none does
\* NAMES,\s+[A-Z][a-z]+ given the end of NAMES
AfterComma(fp, sp1) == sp1 # 0 /\ CapWord(fp, sp1, FALSE) # 0
NamesThenCity(fp, names) ==
    AfterComma(fp, IF names # 0 /\ LitAt(fp, names, ",") THEN Spaces1(fp, names + 1) ELSE 0)
\* NAMES\s*$
NamesToEnd(fp, names) == names # 0 /\ SkipSpaces(fp, names) = Len(fp) + 1
ByName(fp, by) == IF by # 0 THEN CapName(fp, by, FALSE) ELSE 0
WordAt(fp, a5) == a5 # 0 /\ a5 <= Len(fp) /\ IsAlpha(Chr(fp, a5))
CommaThenWord(fp, c5) == WordAt(fp, IF c5 # 0 /\ LitAt(fp, c5, ",") THEN SkipSpaces(fp, c5 + 1) ELSE 0)
NamesCommaWord(fp, names) == CommaThenWord(fp, IF names # 0 THEN SkipSpaces(fp, names) ELSE 0)

AuthorMatchGiven(fp, names, hyph, by) ==
    IF NamesThenCity(fp, names) \/ NamesToEnd(fp, names)
    THEN [found |-> TRUE, group |-> SubSeq(fp, 1, names - 1)]
    ELSE IF hyph # 0 THEN [found |-> TRUE, group |-> SubSeq(fp, 1, hyph - 1)]
    ELSE IF ByName(fp, by) # 0 THEN [found |-> TRUE, group |-> SubSeq(fp, by, ByName(fp, by) - 1)]
    ELSE IF NamesCommaWord(fp, names) THEN [found |-> TRUE, group |-> SubSeq(fp, 1, names - 1)]
    ELSE [found |-> FALSE, group |-> ""]

AuthorPatternMatch(fp) ==
    AuthorMatchGiven(fp, CapNames(fp, 1, FALSE), HyphenNames(fp, 1),
                     IF LitAt(fp, 1, "By") THEN Spaces1(fp, 3) ELSE 0)

\* what follows the loop over the patterns: the cleaned group of the match, or
\* the short first paragraph that begins like a name
AuthorFromMatch(first_paragraph, m) ==
    IF m.found THEN CutAtComma(Strip(m.group))
    ELSE IF Len(first_paragraph) < 60 /\ CapNames(first_paragraph, 1, FALSE) # 0
    THEN Strip(first_paragraph)
    ELSE ""

_extract_author_from_body(body_story) ==
    IF body_story.paragraphs = <<>> THEN ""
    ELSE AuthorFromMatch(Strip(body_story.paragraphs[1]),
                         AuthorPatternMatch(Strip(body_story.paragraphs[1])))

\* the words of the last-resort pattern of _remove_exact_author_from_paragraph,
\* lower-cased (the search ignores case)
FunctionWords ==
    {"the", "a", "an", "in", "on", "at", "for", "with", "by", "after", "before",
     "during", "since", "until", "about", "over", "under", "through", "against",
     "between", "among", "around", "inside", "outside", "upon", "within",
     "without", "from", "to", "of", "into", "onto", "across", "down", "up",
     "off", "out"}

\* match.start() + 1 of re.search(r'\b(The|A|...)\b', paragraph, re.IGNORECASE), 0
\* when there is no match: the first maximal run of \w characters that is one of
\* the words
FirstFunctionWord(paragraph) ==
    LET hits == {i \in WordStarts(paragraph) :
                    Lower(SubSeq(paragraph, i, SpanWord(paragraph, i) - 1)) \in FunctionWords}
    IN  IF hits = {} THEN 0 ELSE CHOOSE i \in hits : \A k \in hits : i <= k

\* [A-Za-z]+\s* at sp (0: the text before it did not match)
CityAt(text, sp) ==
    IF sp # 0 /\ sp <= Len(text) /\ IsAlpha(Chr(text, sp))
    THEN SkipSpaces(text, SpanAlpha(text, sp)) ELSE 0

\* ,\s+[A-Za-z]+\s* at e
City(text, e) ==
    CityAt(text, IF e # 0 /\ LitAt(text, e, ",") THEN Spaces1(text, e + 1) ELSE 0)

\* \s+and\s+[A-Z][a-z]+(?:\s+[A-Z][a-z]+)* at e0
OtherName(text, e0) ==
    IF e0 # 0 /\ AndSep(text, e0, TRUE) # 0
    THEN CapName(text, AndSep(text, e0, TRUE), TRUE) ELSE 0

\* pattern k, given the end e0 of the author and the end of the other name
RemovalMatchAt(k, text, e0, other) ==
    IF e0 = 0 THEN 0
    ELSE IF k = 1 THEN City(text, e0)
    ELSE IF k = 2 THEN City(text, other)
    ELSE IF k = 3 THEN SkipSpaces(text, e0)
    ELSE IF other # 0 THEN SkipSpaces(text, other) ELSE 0

RemovalMatchFrom(k, text, e0) == RemovalMatchAt(k, text, e0, OtherName(text, e0))

\* The position after the match of removal pattern k (1..4) at the start of
\* text, 0 when it does not match.  re.escape(author_name) is the literal
\* author; the flag re.IGNORECASE holds for the whole pattern.
RemovalMatch(k, text, author_name) ==
    RemovalMatchFrom(k, text, IF LitAtCI(text, 1, author_name)
                              THEN Len(author_name) + 1 ELSE 0)

\* the text without its first e - 1 characters (e = 0: no match), stripped
RemovalCut(cleaned, e) == Strip(IF e = 0 THEN cleaned ELSE From(cleaned, e))

\* re.sub(pattern, '', cleaned, flags=re.IGNORECASE).strip()
RemovalSub(k, cleaned, author_name) ==
    RemovalCut(cleaned, RemovalMatch(k, cleaned, author_name))

RECURSIVE RemovalLoop(_, _, _)
\* if new_cleaned != cleaned: cleaned = new_cleaned; break
RemovalStep(k, cleaned, author_name, new_cleaned) ==
    IF new_cleaned # cleaned THEN new_cleaned
    ELSE RemovalLoop(k + 1, cleaned, author_name)

\* for pattern in removal_patterns: ... break at the first that changes the text
RemovalLoop(k, cleaned, author_name) ==
    IF k > 4 THEN cleaned
    ELSE RemovalStep(k, cleaned, author_name, RemovalSub(k, cleaned, author_name))

\* A removal without the function-word fallback.
_remove_exact_author_from_paragraph_NoFallback(paragraph, author_name) ==
    IF author_name = "" THEN paragraph
    ELSE RemovalLoop(1, paragraph, author_name)

\* "if the above didn't work": m is the place of the first function word
RemovalFallback(paragraph, cleaned, m) ==
    IF cleaned = paragraph /\ m # 0 THEN Strip(From(paragraph, m))
    ELSE cleaned

_remove_exact_author_from_paragraph(paragraph, author_name) ==
    IF author_name = "" THEN paragraph
    ELSE RemovalFallback(paragraph, RemovalLoop(1, paragraph, author_name),
                         FirstFunctionWord(paragraph))

\* [p.strip() for p in paragraphs]
StrippedParagraphs(paragraphs) == [i \in 1..Len(paragraphs) |-> Strip(paragraphs[i])]

\* the paragraphs that are not empty
NonEmpty(paragraphs) == SelectSeq(paragraphs, LAMBDA para : para # "")

\* A first paragraph that is kept when 10 characters remain.
CleanedParagraphs_Keep10(stripped, extracted_author, cleaned_first) ==
    IF extracted_author # ""
    THEN (IF cleaned_first # "" /\ Len(Strip(cleaned_first)) >= 10
          THEN <<Strip(cleaned_first)>> ELSE <<>>)
         \o NonEmpty(SubSeq(stripped, 2, Len(stripped)))
    ELSE NonEmpty(stripped)

\* cleaned_paragraphs, given the stripped paragraphs, the author and the first
\* paragraph without the author
CleanedParagraphs(stripped, extracted_author, cleaned_first) ==
    IF extracted_author # ""
    THEN (IF cleaned_first # "" /\ Len(Strip(cleaned_first)) > 10
          THEN <<Strip(cleaned_first)>> ELSE <<>>)
         \o NonEmpty(SubSeq(stripped, 2, Len(stripped)))
    ELSE NonEmpty(stripped)

CleanWithAuthor(stripped, extracted_author) ==
    Join(CleanedParagraphs(stripped, extracted_author,
                           _remove_exact_author_from_paragraph(stripped[1], extracted_author)),
         "\n")

_clean_content_text(body_story) ==
    IF body_story.paragraphs = <<>> THEN ""
    ELSE CleanWithAuthor(StrippedParagraphs(body_story.paragraphs),
                         _extract_author_from_body(body_story))

(***************************************************************************)
(* The rich content renderer.                                              *)
(***************************************************************************)
\* STEP 1: if element.get('is_bold', False)
BoldWrap(html_text, element) ==
    IF element.is_bold THEN "<strong>" \o html_text \o "</strong>" ELSE html_text

\* STEP 2: if element.get('is_italic', False)
ItalicWrap(html_text, element) ==
    IF element.is_italic THEN "<em>" \o html_text \o "</em>" ELSE html_text

\* STEP 3: if font_size >= 16 and not is_bold: h4; elif font_size >= 20: h3
HeadingWrap(html_text, element) ==
    IF element.font_size >= 16 /\ ~element.is_bold THEN "<h4>" \o html_text \o "</h4>"
    ELSE IF element.font_size >= 20 THEN "<h3>" \o html_text \o "</h3>"
    ELSE html_text

_wrap_text_with_formatting(text, element) ==
    HeadingWrap(ItalicWrap(BoldWrap(text, element), element), element)

RECURSIVE GroupFrom(_, _, _, _)
\* the loop of _group_elements_by_paragraph from element k on, with the
\* paragraphs closed so far and the one that is open
GroupFrom(content_elements, k, paragraphs, current_paragraph) ==
    IF k > Len(content_elements)
    THEN IF current_paragraph # <<>> THEN Append(paragraphs, current_paragraph)
         ELSE paragraphs
    ELSE IF k > 1 /\ content_elements[k].paragraph_range_index
                         # content_elements[k - 1].paragraph_range_index
    THEN GroupFrom(content_elements, k + 1,
                   IF current_paragraph # <<>> THEN Append(paragraphs, current_paragraph)
                   ELSE paragraphs,
                   <<content_elements[k]>>)
    ELSE GroupFrom(content_elements, k + 1, paragraphs,
                   Append(current_paragraph, content_elements[k]))

\* A grouping that never starts a new paragraph.
_group_elements_by_paragraph_NoSplit(content_elements) ==
    IF content_elements = <<>> THEN <<>> ELSE <<content_elements>>

_group_elements_by_paragraph(content_elements) == GroupFrom(content_elements, 1, <<>>, <<>>)

\* ^By\s+author at the start of the text, under re.IGNORECASE
ByAuthorAt(text, extracted_author) ==
    /\ LitAtCI(text, 1, "By")
    /\ \E k \in 3..Len(text) :
          /\ \A j \in 3..k : IsSpace(Chr(text, j))
          /\ LitAtCI(text, k + 1, extracted_author)

\* the three author_patterns on the stripped text; the third, the author then
\* a comma and a word, matches only where the first does
AuthorParagraphMatch(text, extracted_author) ==
    \/ LitAtCI(text, 1, extracted_author)
    \/ ByAuthorAt(text, extracted_author)
    \/ ( /\ LitAtCI(text, 1, extracted_author \o ",")
         /\ Spaces1(text, Len(extracted_author) + 2) > 0
         /\ Spaces1(text, Len(extracted_author) + 2) <= Len(text)
         /\ IsAlpha(Chr(text, Spaces1(text, Len(extracted_author) + 2))) )

_is_author_paragraph(paragraph_text, extracted_author) ==
    IF extracted_author = "" THEN FALSE
    ELSE AuthorParagraphMatch(Strip(paragraph_text), extracted_author)

\* the elements of a paragraph whose stripped text is not empty
TextElements(para_elements) == SelectSeq(para_elements, LAMBDA e : Strip(e.text) # "")

\* paragraph_text = ' '.join(paragraph_text_parts)
ParagraphText(elements) == Join([k \in 1..Len(elements) |-> Strip(elements[k].text)], " ")

\* paragraph_html = ''.join(paragraph_html_parts)
ParagraphHtml(elements) ==
    Join([k \in 1..Len(elements) |->
              _wrap_text_with_formatting(Strip(elements[k].text), elements[k])], "")

\* what one paragraph adds to html_paragraphs
RenderParagraph(elements, extracted_author) ==
    IF extracted_author # "" /\ _is_author_paragraph(ParagraphText(elements), extracted_author)
    THEN <<>>
    ELSE IF Strip(ParagraphHtml(elements)) # ""
    THEN << "<p>" \o ParagraphHtml(elements) \o "</p>" >>
    ELSE <<>>

RECURSIVE RenderFrom(_, _, _)
\* the loop over para_ranges from paragraph k on
RenderFrom(para_ranges, k, extracted_author) ==
    IF k > Len(para_ranges) THEN <<>>
    ELSE RenderParagraph(TextElements(para_ranges[k]), extracted_author)
             \o RenderFrom(para_ranges, k + 1, extracted_author)

_generate_rich_content_html(body_story) ==
    IF body_story.content_elements = <<>> THEN ""
    ELSE Join(RenderFrom(_group_elements_by_paragraph(body_story.content_elements), 1,
                         _extract_author_from_body(body_story)), "\n")

\* A renderer that takes the author paragraph out of the story it is given.
StoryAfterRender_AuthorRemoved(body_story) ==
    [body_story EXCEPT
        !.content_elements =
            SelectSeq(@, LAMBDA e : ~_is_author_paragraph(e.text,
                                                          _extract_author_from_body(body_story))),
        !.paragraphs = SelectSeq(@, LAMBDA q : ~_is_author_paragraph(q,
                                                    _extract_author_from_body(body_story)))]

\* the story after a call of _generate_rich_content_html: the function reads
\* body_story and its elements (get, indexing, strip on copies) and assigns to
\* neither
StoryAfterRender(body_story) == body_story

(***************************************************************************)
(* The headline matcher.  A score is the exact rational [n, d] = n / d,    *)
(* d > 0.                                                                  *)
(***************************************************************************)
Rat(n, d) == [n |-> n, d |-> d]
RatLess(a, b) == a.n * b.d < b.n * a.d
RatLeq(a, b) == a.n * b.d <= b.n * a.d

stop_words ==
    {"this", "that", "with", "from", "they", "were", "been", "have", "will",
     "would", "could", "should", "said", "says", "also", "more", "most", "much",
     "many", "some", "very", "when", "where", "what", "which", "while", "after",
     "before", "during", "since", "until", "about", "above", "below", "between",
     "through", "against"}

important_keywords ==
    {"president", "minister", "governor", "senator", "chairman", "commission",
     "committee", "party", "government", "assembly", "court", "justice",
     "university", "union", "movement", "congress", "forum"}

\* set(re.findall(r'\b[a-z]{4,}\b', text)): the maximal runs of \w characters
\* that are four or more lower-case letters
LongWords(text) ==
    {SubSeq(text, i, SpanWord(text, i) - 1) :
        i \in {k \in WordStarts(text) :
                  SpanLower(text, k) = SpanWord(text, k) /\ SpanWord(text, k) - k >= 4}}

RECURSIVE EntityEnd(_, _)
\* the entity goes on with the word that ends at w (0: there is none)
EntityNext(text, w) == IF w = 0 THEN 0 ELSE EntityEnd(text, w)

\* \s+[A-Z][a-z]+ at e
NextCapWord(text, sp) == IF sp = 0 THEN 0 ELSE CapWord(text, sp, FALSE)

EntityEndOr(text, e, longer) ==
    IF longer # 0 THEN longer
    ELSE IF WordBoundary(text, e) THEN e
    ELSE 0

\* The end of the match of [A-Z][a-z]+(?:\s+[A-Z][a-z]+)*\b that starts with
\* the words matched up to e: the longest run of further words that ends at a
\* word boundary, else e itself if it is one, else 0.
EntityEnd(text, e) ==
    EntityEndOr(text, e, EntityNext(text, NextCapWord(text, Spaces1(text, e))))

\* the end of the match of the entity pattern at i, 0 when there is none
EntityAt(text, i) ==
    EntityNext(text, IF WordBoundary(text, i) THEN CapWord(text, i, FALSE) ELSE 0)

\* the least element of a non-empty set of positions
MinOf(S) == CHOOSE k \in S : \A m \in S : k <= m

RECURSIVE EntitiesFrom(_, _)
\* the match from first to end - 1, then the scan goes on at end
EntitiesAfter(text, first, end) ==
    {SubSeq(text, first, end - 1)} \cup EntitiesFrom(text, end)

EntitiesAmong(text, starts) ==
    IF starts = {} THEN {}
    ELSE EntitiesAfter(text, MinOf(starts), EntityAt(text, MinOf(starts)))

\* re.findall(r'\b[A-Z][a-z]+(?:\s+[A-Z][a-z]+)*\b', text), scanning from i:
\* the leftmost match, then the scan goes on where it ended
EntitiesFrom(text, i) ==
    EntitiesAmong(text, {k \in i..Len(text) : EntityAt(text, k) # 0})

Entities(text) == EntitiesFrom(text, 1)

\* the keywords found in both texts
CommonKeywords(headline_lower, content_lower) ==
    {k \in important_keywords : Contains(headline_lower, k) /\ Contains(content_lower, k)}

\* word_overlap_score + entity_score + keyword score, as one fraction: whole
\* is the sum of the last two
SimilarityScore(headline_words, content_words, whole) ==
    IF Cardinality(headline_words) > 0
    THEN Rat(5 * Cardinality(headline_words \cap content_words)
                 + whole * Cardinality(headline_words),
             Cardinality(headline_words))
    ELSE Rat(whole, 1)

\* A similarity whose word window is the first 10 characters of the content.
SimilarityLowered_Window10(headline, content, headline_lower, content_lower) ==
    SimilarityScore(LongWords(headline_lower) \ stop_words,
                    LongWords(Take(content_lower, 10)) \ stop_words,
                    2 * Cardinality(Entities(headline) \cap Entities(Take(content, 400)))
                        + Cardinality(CommonKeywords(headline_lower, content_lower)))

SimilarityLowered(headline, content, headline_lower, content_lower) ==
    SimilarityScore(LongWords(headline_lower) \ stop_words,
                    LongWords(Take(content_lower, 300)) \ stop_words,
                    2 * Cardinality(Entities(headline) \cap Entities(Take(content, 400)))
                        + Cardinality(CommonKeywords(headline_lower, content_lower)))

_calculate_content_similarity(headline, content) ==
    SimilarityLowered(headline, content, Lower(headline), Lower(content))

\* the score of Strategy 1 and Strategy 3 for one headline: both texts are
\* lower-cased before the call
SimilarityForMatching(headline_raw_content, body_raw_content) ==
    _calculate_content_similarity(Lower(headline_raw_content), Lower(body_raw_content))

\* the run of digits at the first of the positions at ("" when there is none)
FirstDigitsAmong(id, at) ==
    IF at = {} THEN "" ELSE SubSeq(id, MinOf(at), SpanDigit(id, MinOf(at)) - 1)

\* A search that takes the last run of digits of the id.
FirstDigits_Trailing(id) ==
    LET starts == {i \in 1..Len(id) :
                      IsDigit(Chr(id, i)) /\ (i = 1 \/ ~IsDigit(Chr(id, i - 1)))}
    IN  IF starts = {} THEN ""
        ELSE LET last == CHOOSE k \in starts : \A m \in starts : m <= k
             IN  SubSeq(id, last, SpanDigit(id, last) - 1)

\* re.search(r'(\d+)', id): the first run of digits, "" when there is none
FirstDigits(id) == FirstDigitsAmong(id, {i \in 1..Len(id) : IsDigit(Chr(id, i))})

\* abs(val1 - val2)
AbsDiff(val1, val2) == IF val1 >= val2 THEN val1 - val2 ELSE val2 - val1

IdDistanceOf(num1, num2) ==
    IF num1 # "" /\ num2 # ""
    THEN [inf |-> FALSE, val |-> AbsDiff(ParseInt(num1), ParseInt(num2))]
    ELSE [inf |-> TRUE, val |-> 0]

\* float('inf') is [inf |-> TRUE]
_calculate_id_distance(id1, id2) == IdDistanceOf(FirstDigits(id1), FirstDigits(id2))

\* A proximity score that falls half as fast: max(0, 10 - id_distance / 20).
IdScore_Per20(id_distance) ==
    IF id_distance.inf \/ id_distance.val >= 200 THEN Rat(0, 1)
    ELSE Rat(200 - id_distance.val, 20)

\* max(0, 10 - (id_distance / 10))
IdScore(id_distance) ==
    IF id_distance.inf \/ id_distance.val >= 100 THEN Rat(0, 1)
    ELSE Rat(100 - id_distance.val, 10)

\* (content_score * 0.7) + (id_score * 0.3)
CombinedScore(content_score, id_score) ==
    Rat(7 * content_score.n * id_score.d + 3 * id_score.n * content_score.d,
        10 * content_score.d * id_score.d)

\* A sort that is not stable: among the entries whose score is largest, the latest.
SortedLast(content_matches) ==
    CHOOSE k \in 1..Len(content_matches) :
        /\ \A m \in 1..Len(content_matches) :
              RatLeq(content_matches[m].score, content_matches[k].score)
        /\ \A m \in (k + 1)..Len(content_matches) :
              RatLess(content_matches[m].score, content_matches[k].score)

\* content_matches after the sort by descending score: the sort is stable, so
\* its first entry is the earliest headline among those whose score is largest
SortedFirst(content_matches) ==
    CHOOSE k \in 1..Len(content_matches) :
        /\ \A m \in 1..Len(content_matches) :
              RatLeq(content_matches[m].score, content_matches[k].score)
        /\ \A m \in 1..(k - 1) : RatLess(content_matches[m].score, content_matches[k].score)

RECURSIVE CombinedLoop(_, _, _, _, _)
\* if combined_score > best_score: best_score, best_match = combined_score, headline
CombinedStep(body_story, scored, k, best_match, best_score, combined_score) ==
    IF RatLess(best_score, combined_score)
    THEN CombinedLoop(body_story, scored, k + 1, k, combined_score)
    ELSE CombinedLoop(body_story, scored, k + 1, best_match, best_score)

\* Strategy 3: the loop over the unused headlines with best_match (0: None) and
\* best_score.  scored[k] holds headline k and its content score: the call of
\* _calculate_content_similarity is the one of strategy 1, with the same arguments.
CombinedLoop(body_story, scored, k, best_match, best_score) ==
    IF k > Len(scored) THEN [best_match |-> best_match, best_score |-> best_score]
    ELSE CombinedStep(body_story, scored, k, best_match, best_score,
                      CombinedScore(scored[k].score,
                                    IdScore(_calculate_id_distance(
                                                body_story.story_id,
                                                scored[k].headline.story_id))))

\* The result is [found, headline]; found = FALSE is None.
NoHeadline == [found |-> FALSE]
Found(h) == [found |-> TRUE, headline |-> h]

\* A matcher that forgets which headlines are taken.
UnusedHeadlines_NoSkip(headlines, used_headlines) == headlines

\* the headlines each strategy goes over: for headline in headlines:
\* if headline['story_id'] in used_headlines: continue
UnusedHeadlines(headlines, used_headlines) ==
    SelectSeq(headlines, LAMBDA h : h.story_id \notin used_headlines)

\* Strategy 1, the scores: each unused headline with its similarity
ScoreHeadlines(unused, body_content) ==
    [k \in 1..Len(unused) |->
        [headline |-> unused[k],
         score |-> _calculate_content_similarity(Lower(unused[k].raw_content),
                                                 body_content)]]

\* if similarity_score > 0: content_matches.append(...)
PositiveMatches(scored) == SelectSeq(scored, LAMBDA c : RatLess(Rat(0, 1), c.score))

\* A matcher whose last strategy returns its best candidate whatever the score.
ChooseHeadline_NoThreshold(unused, content_matches, best) ==
    IF content_matches # <<>>
       /\ RatLeq(Rat(2, 1), content_matches[SortedFirst(content_matches)].score)
    THEN Found(content_matches[SortedFirst(content_matches)].headline)
    ELSE IF best.best_match # 0
    THEN Found(unused[best.best_match])
    ELSE NoHeadline

\* the two returns: the best content match when its score is at least 2, else
\* the best combined score when it is at least 1, else None
ChooseHeadline(unused, content_matches, best) ==
    IF content_matches # <<>>
       /\ RatLeq(Rat(2, 1), content_matches[SortedFirst(content_matches)].score)
    THEN Found(content_matches[SortedFirst(content_matches)].headline)
    ELSE IF best.best_match # 0 /\ RatLeq(Rat(1, 1), best.best_score)
    THEN Found(unused[best.best_match])
    ELSE NoHeadline

MatchAmongScored(body_story, unused, scored) ==
    ChooseHeadline(unused, PositiveMatches(scored),
                   CombinedLoop(body_story, scored, 1, 0, Rat(-1, 1)))

MatchAmong(body_story, unused, body_content) ==
    MatchAmongScored(body_story, unused, ScoreHeadlines(unused, body_content))

_find_matching_headline(body_story, headlines, used_headlines) ==
    MatchAmong(body_story, UnusedHeadlines(headlines, used_headlines),
               Lower(body_story.raw_content))

\* A fallback that never looks for a bold element.
_extract_headline_from_content_NoBold(body_story) ==
    LET paragraphs == body_story.paragraphs
        dot == Find(paragraphs[1], ".")
        first_sentence == IF dot = 0 THEN paragraphs[1] ELSE SubSeq(paragraphs[1], 1, dot - 1)
    IN  IF paragraphs # <<>>
        THEN (IF Len(first_sentence) > 100 THEN Take(first_sentence, 100) \o "..."
              ELSE first_sentence)
        ELSE ""

_extract_headline_from_content(body_story) ==
    LET content_elements == body_story.content_elements
        bold == {k \in 1..Len(content_elements) :
                    /\ content_elements[k].is_bold
                    /\ content_elements[k].font_size > 10
                    /\ Len(content_elements[k].text) < 100}
        paragraphs == body_story.paragraphs
        dot == Find(paragraphs[1], ".")
        first_sentence == IF dot = 0 THEN paragraphs[1] ELSE SubSeq(paragraphs[1], 1, dot - 1)
    IN  IF bold # {} THEN content_elements[CHOOSE k \in bold : \A m \in bold : k <= m].text
        ELSE IF paragraphs # <<>>
        THEN (IF Len(first_sentence) > 100 THEN Take(first_sentence, 100) \o "..."
              ELSE first_sentence)
        ELSE ""

(***************************************************************************)
(* The WordPress taxonomy caches (wordpress.py).  A Python dict is a       *)
(* function; an answer of the server is its status and its JSON list.      *)
(***************************************************************************)
EmptyDict == [x \in {} |-> 0]

\* d[key] = value
DictSet(d, key, value) ==
    [x \in DOMAIN d \cup {key} |-> IF x = key THEN value ELSE d[x]]

\* d.get(key, {}) of a dict of dicts
DictGet(d, key) == IF key \in DOMAIN d THEN d[key] ELSE EmptyDict

\* the body of "for cat in categories_data"
AddCategory(acc, cat) ==
    [flat |-> DictSet(acc.flat, Lower(cat.name), cat.id),
     all_categories |-> DictSet(acc.all_categories, cat.id,
                                [name |-> cat.name, parent |-> cat.parent, id |-> cat.id]),
     parent_categories |-> IF cat.parent = 0
                           THEN DictSet(acc.parent_categories, Lower(cat.name), cat.id)
                           ELSE acc.parent_categories,
     hierarchical |-> IF cat.parent = 0 THEN acc.hierarchical
                      ELSE DictSet(acc.hierarchical, cat.parent,
                                   DictSet(DictGet(acc.hierarchical, cat.parent),
                                           Lower(cat.name), cat.id))]

RECURSIVE CategoriesFrom(_, _, _)
CategoriesFrom(acc, categories_data, k) ==
    IF k > Len(categories_data) THEN acc
    ELSE CategoriesFrom(AddCategory(acc, categories_data[k]), categories_data, k + 1)

\* the four empty dicts: the start of the loop and the result of the except branch
NoCategories ==
    [flat |-> EmptyDict, hierarchical |-> EmptyDict,
     all_categories |-> EmptyDict, parent_categories |-> EmptyDict]

\* what a call of fetch_all_categories does, given the cache and the server's
\* answer: the new cache, the value returned, the requests sent
CategoriesCall(cache, answer) ==
    IF cache # NoneResult
    THEN [cache |-> cache, result |-> cache.dict, requests |-> 0, raised |-> FALSE]
    ELSE IF answer.status = "ok"
    THEN [cache |-> Dict(CategoriesFrom(NoCategories, answer.json, 1)),
          result |-> CategoriesFrom(NoCategories, answer.json, 1),
          requests |-> 1, raised |-> FALSE]
    ELSE [cache |-> cache, result |-> NoCategories, requests |-> 1, raised |-> TRUE]

per_page == 100

\* (name or username or email).lower().strip()
DisplayName(author) ==
    Strip(Lower(IF author.name # "" THEN author.name
                ELSE IF author.username # "" THEN author.username
                ELSE author.email))

\* the places of a page whose account has the given display name
NamedAt(page_authors, name) ==
    {k \in 1..Len(page_authors) : DisplayName(page_authors[k]) = name}

\* the names a page adds: "if display_name"
NamesOf(page_authors) ==
    {DisplayName(page_authors[k]) : k \in 1..Len(page_authors)} \ {""}

\* for author in page_authors: authors[display_name] = user_id, the last
\* account of a name giving its id
AddAuthors(authors, page_authors) ==
    [name \in DOMAIN authors \cup NamesOf(page_authors) |->
        IF name \in NamesOf(page_authors)
        THEN page_authors[CHOOSE k \in NamedAt(page_authors, name) :
                             \A m \in NamedAt(page_authors, name) : m <= k].id
        ELSE authors[name]]

RECURSIVE FetchPages(_, _, _)
\* the "while True" loop from the given page on; answers[page] is the server's
\* answer to the request for that page
FetchPages(answers, page, authors) ==
    IF answers[page].status # "ok"
    THEN [raised |-> TRUE, authors |-> EmptyDict, requests |-> page]
    ELSE IF answers[page].json = <<>>
    THEN [raised |-> FALSE, authors |-> authors, requests |-> page]
    ELSE IF Len(answers[page].json) < per_page
    THEN [raised |-> FALSE, authors |-> AddAuthors(authors, answers[page].json),
          requests |-> page]
    ELSE FetchPages(answers, page + 1, AddAuthors(authors, answers[page].json))

\* A call that stores what it has gathered when a request fails.
AuthorsFetched_KeepPartial(cache, fetched) ==
    [cache |-> Dict(fetched.authors),
     result |-> IF fetched.raised THEN EmptyDict ELSE fetched.authors,
     requests |-> fetched.requests, raised |-> fetched.raised]

\* the end of fetch_all_authors, given what the loop gathered or that it raised
AuthorsFetched(cache, fetched) ==
    IF fetched.raised
    THEN [cache |-> cache, result |-> EmptyDict, requests |-> fetched.requests,
          raised |-> TRUE]
    ELSE [cache |-> Dict(fetched.authors), result |-> fetched.authors,
          requests |-> fetched.requests, raised |-> FALSE]

\* A call that asks the server whether or not the cache is set.
AuthorsCall_NoCache(cache, answers) ==
    AuthorsFetched(cache, FetchPages(answers, 1, EmptyDict))

AuthorsCall(cache, answers) ==
    IF cache # NoneResult
    THEN [cache |-> cache, result |-> cache.dict, requests |-> 0, raised |-> FALSE]
    ELSE AuthorsFetched(cache, FetchPages(answers, 1, EmptyDict))

(***************************************************************************)
(* The documents.  A document is the story files of one archive, in the    *)
(* sorted order of their names; StoryFile(i) is the i-th name.             *)
(***************************************************************************)
MaxStories == 3

StoryFile(i) == "Stories/Story_" \o Chr(DigitStr, i + 1) \o ".xml"

Story(self, paras) == [Self |-> self, wf |-> "ok", paras |-> paras]
\* a story of one ParagraphStyleRange, one CharacterStyleRange, one Content
OneRun(self, size, style, text) == Story(self, <<<<Run(size, style, <<Content(text)>>)>>>>)

Text99a == "Long headline of the day"
Text99b == "reported from the state capital this morning by our correspondents reporte"

Marker247 == OneRun("u10", "12", Absent, "247")
MarkerBusiness == OneRun("u11", "18", "Bold", "Business")
MarkerNews == OneRun("u12", Absent, Absent, "news")
Marker37 == OneRun("u13", "12", "Regular", " 37 ")
HeadlineCity == OneRun("u20", "18", "Bold", "City Council Approves Budget")
BodyCouncil ==
    Story("u21", << <<Run("12", "Regular", <<Content("John Doe, Lagos")>>)>>,
                    <<Run("12", "Regular", <<Content("The council voted 7-2 to approve...")>>)>> >>)
BodyMarket ==
    Story("u25", << <<Run("11", "Italic", <<Content("By Mary Ann"), Br,
                          Content("The city council approved the budget after the governor spoke")>>)>> >>)
\* average size exactly 15, bold, one paragraph, 99 and 100 characters
Headline99 ==
    Story("u500", << <<Run("14", "Bold", <<Content(Text99a)>>),
                       Run("16", "Regular", <<Content(Text99b)>>)>> >>)
Headline100 ==
    Story("u501", << <<Run("14", "Bold", <<Content(Text99a)>>),
                       Run("16", "Regular", <<Content(Text99b \o "s")>>)>> >>)
PhotoCredit == OneRun("u40", "18", "Bold", "Photo: Jane Smith")
Malformed == [Self |-> "u30", wf |-> "malformed", paras |-> <<>>]
NoStoryElement ==
    [Self |-> "u31", wf |-> "nostory",
     paras |-> << <<Run("18", "Bold", <<Content("Sports")>>)>> >>]

StoryPool ==
    {Marker247, MarkerBusiness, MarkerNews, Marker37, HeadlineCity, BodyCouncil,
     BodyMarket, Headline99, Headline100, PhotoCredit, Malformed, NoStoryElement}

\* story ids are unique within one document
Documents ==
    UNION {{d \in [1..n -> StoryPool] : \A a, b \in 1..n : a # b => d[a].Self # d[b].Self} :
              n \in 0..MaxStories}

(***************************************************************************)
(* extract_news_articles as a state machine: the first pass (one step per  *)
(* story file), the category assembly, the second pass (one step per story *)
(* file), then _match_headlines_with_content: the partition, one step per  *)
(* body story, and the standalone headlines.                               *)
(***************************************************************************)
VARIABLES
    zip_file,            \* the story files of the archive, sorted by name
    pc,                  \* "scan", "parse", "match", "done"
    i,                   \* the index of the story file the running pass is at
    all_markers,         \* the (index, story_id, content) of the first pass
    marker_story_ids,
    detected_category,
    all_stories,
    headlines,
    body_stories,
    used_headlines,
    matched_articles,
    b,                   \* the index of the body story the matching loop is at
    paragraph,           \* the first paragraph author removal is applied to
    author_name,         \* the author name it removes
    cleaned,             \* the results of the successive applications
    calls,               \* the local variables of each of two concurrent calls
    parsed_story,        \* the story _generate_rich_content_html is given
    content_html,        \* the HTML of its successive calls
    headline_text,       \* the headline text that is scored
    body_text,           \* the body text that is scored
    added,               \* the keyword added to both texts and where, <<>> before
    similarity,          \* the scores of _calculate_content_similarity on the texts
    similarity_score,    \* the score the matcher computes for the texts
    body_id,             \* the id of the body story
    headline_id,         \* the id of the headline
    id_distance,         \* the result of _calculate_id_distance, <<>> before the call
    story_xml,           \* the story markup _parse_news_story is given
    story_data,          \* what the call returned, <<>> before the call
    paragraph_groups,    \* the groups of its content elements, <<>> before the call
    clean_story,         \* the body story _clean_content_text is given
    plain_content,       \* the plain content of the call, <<>> before the call
    _CATEGORIES_CACHE,   \* the module-level cache of fetch_all_categories
    _AUTHORS_CACHE,      \* the module-level cache of fetch_all_authors
    call_log             \* the calls made so far: what each was answered and what it returned

removal_vars == <<paragraph, author_name, cleaned>>

concurrent_vars == <<calls>>

extract_vars == <<zip_file, i, all_markers, marker_story_ids, detected_category,
                  all_stories, headlines, body_stories, used_headlines,
                  matched_articles, b>>

render_vars == <<parsed_story, content_html>>

similarity_vars == <<headline_text, body_text, added, similarity, similarity_score>>

distance_vars == <<body_id, headline_id, id_distance>>

parse_vars == <<story_xml, story_data, paragraph_groups>>

clean_vars == <<clean_story, plain_content>>

cache_vars == <<_CATEGORIES_CACHE, _AUTHORS_CACHE, call_log>>

vars == <<zip_file, pc, i, all_markers, marker_story_ids, detected_category,
          all_stories, headlines, body_stories, used_headlines, matched_articles, b,
          paragraph, author_name, cleaned, calls,
          parsed_story, content_html,
          headline_text, body_text, added, similarity, similarity_score,
          body_id, headline_id, id_distance,
          story_xml, story_data, paragraph_groups,
          clean_story, plain_content,
          _CATEGORIES_CACHE, _AUTHORS_CACHE, call_log>>

\* the variables one specification leaves alone
outside_extract == <<removal_vars, concurrent_vars, render_vars, similarity_vars, distance_vars, parse_vars, clean_vars, cache_vars>>
outside_removal == <<extract_vars, concurrent_vars, render_vars, similarity_vars, distance_vars, parse_vars, clean_vars, cache_vars>>
outside_concurrent == <<extract_vars, removal_vars, render_vars, similarity_vars, distance_vars, parse_vars, clean_vars, cache_vars>>
outside_render == <<extract_vars, removal_vars, concurrent_vars, similarity_vars, distance_vars, parse_vars, clean_vars, cache_vars>>
outside_similarity == <<extract_vars, removal_vars, concurrent_vars, render_vars, distance_vars, parse_vars, clean_vars, cache_vars>>
outside_distance == <<extract_vars, removal_vars, concurrent_vars, render_vars, similarity_vars, parse_vars, clean_vars, cache_vars>>
outside_parse == <<extract_vars, removal_vars, concurrent_vars, render_vars, similarity_vars, distance_vars, clean_vars, cache_vars>>
outside_clean == <<extract_vars, removal_vars, concurrent_vars, render_vars, similarity_vars, distance_vars, parse_vars, cache_vars>>
outside_cache == <<extract_vars, removal_vars, concurrent_vars, render_vars, similarity_vars, distance_vars, parse_vars, clean_vars>>

\* the values of the variables a specification does not use
IdleExtract ==
    /\ zip_file = <<>>
    /\ i = 1
    /\ all_markers = <<>>
    /\ marker_story_ids = {}
    /\ detected_category = ""
    /\ all_stories = <<>>
    /\ headlines = <<>>
    /\ body_stories = <<>>
    /\ used_headlines = {}
    /\ matched_articles = <<>>
    /\ b = 1

IdleRemoval ==
    /\ paragraph = ""
    /\ author_name = ""
    /\ cleaned = <<>>

IdleConcurrent == calls = <<>>

IdleRender ==
    /\ parsed_story = <<>>
    /\ content_html = <<>>

IdleSimilarity ==
    /\ headline_text = ""
    /\ body_text = ""
    /\ added = <<>>
    /\ similarity = <<>>
    /\ similarity_score = <<>>

IdleDistance ==
    /\ body_id = ""
    /\ headline_id = ""
    /\ id_distance = <<>>

IdleParse ==
    /\ story_xml = <<>>
    /\ story_data = <<>>
    /\ paragraph_groups = <<>>

IdleClean ==
    /\ clean_story = <<>>
    /\ plain_content = <<>>

IdleCache ==
    /\ _CATEGORIES_CACHE = NoneResult
    /\ _AUTHORS_CACHE = NoneResult
    /\ call_log = <<>>

Init ==
    /\ zip_file \in Documents
    /\ pc = "scan"
    /\ i = 1
    /\ all_markers = <<>>
    /\ marker_story_ids = {}
    /\ detected_category = ""
    /\ all_stories = <<>>
    /\ headlines = <<>>
    /\ body_stories = <<>>
    /\ used_headlines = {}
    /\ matched_articles = <<>>
    /\ b = 1
    /\ IdleRemoval
    /\ IdleConcurrent
    /\ IdleRender
    /\ IdleSimilarity
    /\ IdleDistance
    /\ IdleParse
    /\ IdleClean
    /\ IdleCache

\* What one turn of the first pass adds to all_markers: nothing when the bytes
\* do not parse or the story has no Story element (the except branch), or when
\* the story is no marker or its text no category.
ScanResult(story, index) ==
    IF story.wf # "ok" THEN <<>>
    ELSE IF _is_category_marker(story) /\ _extract_category_from_story(story) # ""
    THEN << [index |-> index, story_id |-> story.Self,
             content |-> _extract_category_from_story(story)] >>
    ELSE <<>>

\* FIRST PASS, one story file (the enumerate index is i - 1)
ScanStory ==
    /\ pc = "scan"
    /\ i <= Len(zip_file)
    /\ all_markers' = all_markers \o ScanResult(zip_file[i], i - 1)
    /\ i' = i + 1
    /\ UNCHANGED outside_extract
    /\ UNCHANGED <<zip_file, pc, marker_story_ids, detected_category, all_stories,
                   headlines, body_stories, used_headlines, matched_articles, b>>

\* A category assembly that takes every recorded marker, gap or not.
ConsecutiveMarkers_NoGapCheck(markers, k, expected_next_index) ==
    SubSeq(markers, k, Len(markers))

RECURSIVE ConsecutiveMarkers(_, _, _)
\* the loop over all_markers from entry k on: the entries taken before the
\* first gap (the break)
ConsecutiveMarkers(markers, k, expected_next_index) ==
    IF k > Len(markers) THEN <<>>
    ELSE IF markers[k].index = expected_next_index
    THEN <<markers[k]>> \o ConsecutiveMarkers(markers, k + 1, expected_next_index + 1)
    ELSE <<>>

\* the first consecutive sequence of markers becomes the category
AssembleCategory ==
    /\ pc = "scan"
    /\ i > Len(zip_file)
    /\ LET taken == ConsecutiveMarkers(all_markers, 1, 0)
           category_parts == [k \in 1..Len(taken) |-> taken[k].content]
       IN  /\ marker_story_ids' = {taken[k].story_id : k \in 1..Len(taken)}
           /\ detected_category' = IF category_parts # <<>> THEN Join(category_parts, "")
                                   ELSE ""
    /\ pc' = "parse"
    /\ i' = 1
    /\ UNCHANGED outside_extract
    /\ UNCHANGED <<zip_file, all_markers, all_stories, headlines, body_stories,
                   used_headlines, matched_articles, b>>

\* A second pass that does not filter the marker stories out.
ParseResult_KeepMarkers(story, filename, markers, category) ==
    LET article_data == _parse_news_story(story, filename)
    IN  IF article_data.kind # "dict" THEN <<>>
        ELSE IF article_data.dict.raw_content = "" THEN <<>>
        ELSE IF category # "" /\ article_data.dict.category = ""
        THEN << [article_data.dict EXCEPT !.category = category] >>
        ELSE << article_data.dict >>

\* A second pass that gives every story the document category.
ParseResult_Overwrite(story, filename, markers, category) ==
    LET article_data == _parse_news_story(story, filename)
    IN  IF article_data.kind # "dict" THEN <<>>
        ELSE IF article_data.dict.raw_content = "" THEN <<>>
        ELSE IF article_data.dict.story_id \in markers THEN <<>>
        ELSE IF category # ""
        THEN << [article_data.dict EXCEPT !.category = category] >>
        ELSE << article_data.dict >>

\* if article_data and article_data.get('raw_content'): ... all_stories.append
KeepStory(article_data, markers, category) ==
    IF article_data.kind # "dict" THEN <<>>
    ELSE IF article_data.dict.raw_content = "" THEN <<>>
    ELSE IF article_data.dict.story_id \in markers THEN <<>>
    ELSE IF category # "" /\ article_data.dict.category = ""
    THEN << [article_data.dict EXCEPT !.category = category] >>
    ELSE << article_data.dict >>

\* What one turn of the second pass adds to all_stories.
ParseResult(story, filename, markers, category) ==
    KeepStory(_parse_news_story(story, filename), markers, category)

\* A second pass without the try/except around one story: the first story that
\* fails ends the run.
ParseStory_NoExcept ==
    /\ pc = "parse"
    /\ i <= Len(zip_file)
    /\ IF _parse_news_story(zip_file[i], StoryFile(i - 1)).kind # "raise"
       THEN /\ all_stories' = all_stories \o ParseResult(zip_file[i], StoryFile(i - 1),
                                                         marker_story_ids, detected_category)
            /\ i' = i + 1
            /\ pc' = pc
       ELSE /\ pc' = "failed"
            /\ UNCHANGED <<all_stories, i>>
    /\ UNCHANGED outside_extract
    /\ UNCHANGED <<zip_file, all_markers, marker_story_ids, detected_category,
                   headlines, body_stories, used_headlines, matched_articles, b>>

\* SECOND PASS, one story file
ParseStory ==
    /\ pc = "parse"
    /\ i <= Len(zip_file)
    /\ all_stories' = all_stories \o ParseResult(zip_file[i], StoryFile(i - 1),
                                                 marker_story_ids, detected_category)
    /\ i' = i + 1
    /\ UNCHANGED outside_extract
    /\ UNCHANGED <<zip_file, pc, all_markers, marker_story_ids, detected_category,
                   headlines, body_stories, used_headlines, matched_articles, b>>

\* A partition loop without the metadata test: every story is classified by
\* its formatting.
ContentType_NoFilter(story) == _determine_story_type(story)

\* the content type the partition loop of _match_headlines_with_content gives
\* a story: "metadata" for the stories it passes over
ContentType(story) ==
    IF _is_metadata_content(story.raw_content) THEN "metadata"
    ELSE _determine_story_type(story)

\* _match_headlines_with_content, up to the matching loop
SeparateStories ==
    /\ pc = "parse"
    /\ i > Len(zip_file)
    /\ headlines' = SelectSeq(all_stories, LAMBDA story : ContentType(story) = "headline")
    /\ body_stories' = SelectSeq(all_stories, LAMBDA story : ContentType(story) = "body_content")
    /\ matched_articles' = <<>>
    /\ used_headlines' = {}
    /\ pc' = "match"
    /\ b' = 1
    /\ UNCHANGED outside_extract
    /\ UNCHANGED <<zip_file, i, all_markers, marker_story_ids, detected_category, all_stories>>

\* the article of a body story and the headline found for it
NewsArticle(body_story, matching_headline) ==
    [story_id |-> body_story.story_id,
     headline_story_id |-> IF matching_headline.found
                           THEN matching_headline.headline.story_id ELSE "",
     filename |-> body_story.filename,
     headline_filename |-> IF matching_headline.found
                           THEN matching_headline.headline.filename ELSE "",
     article_type |-> "news_article",
     headline |-> IF matching_headline.found THEN matching_headline.headline.raw_content
                  ELSE _extract_headline_from_content(body_story),
     author |-> _extract_author_from_body(body_story),
     category |-> body_story.category,
     content |-> _clean_content_text(body_story),
     has_matching_headline |-> matching_headline.found]

\* the matching loop, one body story
MatchBodyStory ==
    /\ pc = "match"
    /\ b <= Len(body_stories)
    /\ \E matching_headline \in
              {_find_matching_headline(body_stories[b], headlines, used_headlines)} :
           /\ used_headlines' = IF matching_headline.found
                                THEN used_headlines \cup {matching_headline.headline.story_id}
                                ELSE used_headlines
           /\ matched_articles' = Append(matched_articles,
                                         NewsArticle(body_stories[b], matching_headline))
    /\ b' = b + 1
    /\ UNCHANGED outside_extract
    /\ UNCHANGED <<zip_file, pc, i, all_markers, marker_story_ids, detected_category,
                   all_stories, headlines, body_stories>>

StandaloneArticle(headline) ==
    [story_id |-> headline.story_id,
     headline_story_id |-> headline.story_id,
     filename |-> headline.filename,
     headline_filename |-> headline.filename,
     article_type |-> "standalone_headline",
     headline |-> headline.raw_content,
     author |-> "",
     category |-> headline.category,
     content |-> "",
     has_matching_headline |-> TRUE]

\* A last loop that goes over the headlines from the last to the first.
UnmatchedHeadlines_Reversed(all_headlines, used) ==
    [k \in 1..Len(SelectSeq(all_headlines, LAMBDA h : h.story_id \notin used)) |->
        SelectSeq(all_headlines, LAMBDA h : h.story_id \notin used)[
            Len(SelectSeq(all_headlines, LAMBDA h : h.story_id \notin used)) + 1 - k]]

\* A last loop that makes a standalone article of every headline, matched or not.
UnmatchedHeadlines_All(all_headlines, used) == all_headlines

\* for headline in headlines: if headline['story_id'] not in used_headlines
UnmatchedHeadlines(all_headlines, used) ==
    SelectSeq(all_headlines, LAMBDA h : h.story_id \notin used)

\* the headlines that were not matched, and the return
AddStandaloneHeadlines ==
    /\ pc = "match"
    /\ b > Len(body_stories)
    /\ LET left == UnmatchedHeadlines(headlines, used_headlines)
       IN  matched_articles' = matched_articles \o
                               [k \in 1..Len(left) |-> StandaloneArticle(left[k])]
    /\ pc' = "done"
    /\ UNCHANGED outside_extract
    /\ UNCHANGED <<zip_file, i, all_markers, marker_story_ids, detected_category,
                   all_stories, headlines, body_stories, used_headlines, b>>

Next ==
    \/ ScanStory
    \/ AssembleCategory
    \/ ParseStory
    \/ SeparateStories
    \/ MatchBodyStory
    \/ AddStandaloneHeadlines

Spec == Init /\ [][Next]_vars

(***************************************************************************)
(* Author removal on its own: _remove_exact_author_from_paragraph applied  *)
(* to a paragraph, then to its own result.  The paragraphs are up to       *)
(* MaxWords words of Vocabulary joined by single spaces.                   *)
(***************************************************************************)
MaxWords == 3

Vocabulary == {"John", "Doe,", "Lagos", "and", "the", "council", "Mary"}

Authors == {"John", "John Doe"}

Paragraphs ==
    {Join(w, " ") : w \in UNION {[1..n -> Vocabulary] : n \in 0..MaxWords}}

InitRemove ==
    /\ paragraph \in Paragraphs
    /\ author_name \in Authors
    /\ cleaned = <<>>
    /\ pc = "remove"
    /\ IdleExtract
    /\ IdleConcurrent
    /\ IdleRender
    /\ IdleSimilarity
    /\ IdleDistance
    /\ IdleParse
    /\ IdleClean
    /\ IdleCache

\* one more application: to the paragraph, then to the last result
ApplyRemoval ==
    /\ pc = "remove"
    /\ Len(cleaned) < 2
    /\ cleaned' = Append(cleaned,
                         _remove_exact_author_from_paragraph(
                             IF cleaned = <<>> THEN paragraph ELSE cleaned[Len(cleaned)],
                             author_name))
    /\ UNCHANGED <<pc, paragraph, author_name>>
    /\ UNCHANGED outside_removal

NextRemove == ApplyRemoval

SpecRemove == InitRemove /\ [][NextRemove]_vars

(***************************************************************************)
(* Two calls of extract_news_articles at once, each on its own extractor   *)
(* and document.  all_stories, detected_category and marker_story_ids      *)
(* (lines 57-59), all_markers, and headlines, body_stories,                *)
(* matched_articles and used_headlines (lines 359-376) are locals of the   *)
(* call: calls[c] holds those of call c.  One step of a call is one turn   *)
(* of one of its loops, and the steps of the two calls interleave freely.  *)
(***************************************************************************)
MaxCallStories == 2

Calls == {1, 2}

CallPool == {MarkerNews, HeadlineCity, BodyCouncil}

CallDocuments ==
    UNION {{d \in [1..n -> CallPool] : \A x, y \in 1..n : x # y => d[x] # d[y]} :
              n \in 1..MaxCallStories}

\* the locals of a call when it starts
StartCall(document) ==
    [zip_file |-> document, pc |-> "scan", i |-> 1, all_markers |-> <<>>,
     marker_story_ids |-> {}, detected_category |-> "", all_stories |-> <<>>,
     headlines |-> <<>>, body_stories |-> <<>>, used_headlines |-> {},
     matched_articles |-> <<>>, b |-> 1]

\* FIRST PASS, one story file
ScanStoryOf(call) ==
    [call EXCEPT !.all_markers = @ \o ScanResult(call.zip_file[call.i], call.i - 1),
                 !.i = @ + 1]

AssembleCategoryWith(call, taken) ==
    [call EXCEPT !.marker_story_ids = {taken[k].story_id : k \in 1..Len(taken)},
                 !.detected_category = IF taken # <<>>
                                       THEN Join([k \in 1..Len(taken) |-> taken[k].content], "")
                                       ELSE "",
                 !.pc = "parse",
                 !.i = 1]

\* the first consecutive sequence of markers becomes the category
AssembleCategoryOf(call) ==
    AssembleCategoryWith(call, ConsecutiveMarkers(call.all_markers, 1, 0))

\* SECOND PASS, one story file
ParseStoryOf(call) ==
    [call EXCEPT !.all_stories = @ \o ParseResult(call.zip_file[call.i], StoryFile(call.i - 1),
                                                  call.marker_story_ids,
                                                  call.detected_category),
                 !.i = @ + 1]

\* _match_headlines_with_content, up to the matching loop
SeparateStoriesOf(call) ==
    [call EXCEPT !.headlines = SelectSeq(call.all_stories,
                                         LAMBDA story : ContentType(story) = "headline"),
                 !.body_stories = SelectSeq(call.all_stories,
                                            LAMBDA story : ContentType(story) = "body_content"),
                 !.matched_articles = <<>>,
                 !.used_headlines = {},
                 !.pc = "match",
                 !.b = 1]

MatchBodyStoryWith(call, used, matching_headline) ==
    [call EXCEPT !.used_headlines = IF matching_headline.found
                                    THEN used \cup {matching_headline.headline.story_id}
                                    ELSE used,
                 !.matched_articles = Append(@, NewsArticle(call.body_stories[call.b],
                                                            matching_headline)),
                 !.b = @ + 1]

\* the matching loop, one body story; used is the set the loop reads as
\* used_headlines
MatchBodyStoryOf(call, used) ==
    MatchBodyStoryWith(call, used,
                       _find_matching_headline(call.body_stories[call.b], call.headlines, used))

AddStandaloneHeadlinesWith(call, left) ==
    [call EXCEPT !.matched_articles = @ \o [k \in 1..Len(left) |-> StandaloneArticle(left[k])],
                 !.pc = "done"]

\* the headlines that were not matched, and the return
AddStandaloneHeadlinesOf(call, used) ==
    AddStandaloneHeadlinesWith(call, UnmatchedHeadlines(call.headlines, used))

\* the next step of a call that has not returned
StepOf(call, used) ==
    IF call.pc = "scan"
    THEN IF call.i <= Len(call.zip_file) THEN ScanStoryOf(call) ELSE AssembleCategoryOf(call)
    ELSE IF call.pc = "parse"
    THEN IF call.i <= Len(call.zip_file) THEN ParseStoryOf(call) ELSE SeparateStoriesOf(call)
    ELSE IF call.b <= Len(call.body_stories) THEN MatchBodyStoryOf(call, used)
    ELSE AddStandaloneHeadlinesOf(call, used)

RECURSIVE RunAlone(_)
\* a call run to its return with no other call about
RunAlone(call) ==
    IF call.pc = "done" THEN call ELSE RunAlone(StepOf(call, call.used_headlines))

\* One used set for the whole process (a module-level or class-level set)
\* instead of the local of each call.
UsedHeadlinesOf_Shared(all_calls, c) ==
    UNION {all_calls[k].used_headlines : k \in DOMAIN all_calls}

\* used_headlines = set() is a local of _match_headlines_with_content: the set
\* call c reads is its own
UsedHeadlinesOf(all_calls, c) == all_calls[c].used_headlines

InitConcurrent ==
    /\ calls \in [Calls -> {StartCall(d) : d \in CallDocuments}]
    /\ pc = "calls"
    /\ IdleExtract
    /\ IdleRemoval
    /\ IdleRender
    /\ IdleSimilarity
    /\ IdleDistance
    /\ IdleParse
    /\ IdleClean
    /\ IdleCache

\* one step of call c
CallStep(c) ==
    /\ pc = "calls"
    /\ calls[c].pc # "done"
    /\ calls' = [calls EXCEPT ![c] = StepOf(calls[c], UsedHeadlinesOf(calls, c))]
    /\ UNCHANGED pc
    /\ UNCHANGED outside_concurrent

NextConcurrent == \E c \in Calls : CallStep(c)

SpecConcurrent == InitConcurrent /\ [][NextConcurrent]_vars

(***************************************************************************)
(* Rendering on its own: _generate_rich_content_html called on a parsed    *)
(* story, and called again on the same story.  The stories are an          *)
(* optional author paragraph followed by a paragraph of up to MaxRuns      *)
(* character ranges of every size and style of RenderSizes and             *)
(* RenderStyles.                                                           *)
(***************************************************************************)
MaxRuns == 2

RenderSizes == {"12", "16", "19", "20"}

RenderStyles == {"Regular", "Bold", "Italic", "Bold Italic"}

FormattedRuns ==
    {Run(size, style, <<Content("Budget approved")>>) :
         size \in RenderSizes, style \in RenderStyles}

AuthorLines ==
    { <<>>,
      << <<Run("12", "Regular", <<Content("John Doe, Lagos")>>)>> >>,
      << <<Run("11", "Italic", <<Content("By Mary Ann")>>)>> >> }

RenderMarkup ==
    {Story("u21", first \o <<body>>) :
         first \in AuthorLines,
         body \in UNION {[1..n -> FormattedRuns] : n \in 1..MaxRuns}}

RenderStories == {_parse_news_story(markup, StoryFile(0)).dict : markup \in RenderMarkup}

InitRender ==
    /\ parsed_story \in RenderStories
    /\ content_html = <<>>
    /\ pc = "render"
    /\ IdleExtract
    /\ IdleRemoval
    /\ IdleConcurrent
    /\ IdleSimilarity
    /\ IdleDistance
    /\ IdleParse
    /\ IdleClean
    /\ IdleCache

\* one call of _generate_rich_content_html on the story
Render ==
    /\ pc = "render"
    /\ Len(content_html) < 2
    /\ content_html' = Append(content_html, _generate_rich_content_html(parsed_story))
    /\ parsed_story' = StoryAfterRender(parsed_story)
    /\ UNCHANGED pc
    /\ UNCHANGED outside_render

NextRender == Render

SpecRender == InitRender /\ [][NextRender]_vars

(***************************************************************************)
(* Similarity scoring on its own: _calculate_content_similarity on a       *)
(* headline text and a body text, the score the matcher computes for the   *)
(* same texts, and the function again after one keyword of the importance  *)
(* list has been added, as a word of its own, to both texts.               *)
(***************************************************************************)
Filler == "talks went on all day and "

\* 300 characters: the last word ends the window of the shared words
LongBody ==
    Filler \o Filler \o Filler \o Filler \o Filler \o Filler \o Filler \o Filler
        \o Filler \o Filler \o Filler \o "then on " \o "budget"

HeadlineTexts ==
    {"City Council approves budget", "Governor Visits Lagos", "Budget", "Jos", "council budget vote"}

BodyTexts ==
    {"Yesterday the City Council voted 7-2 to approve the budget",
     "Jos welcomed the Governor", "budget", "Court rules on Lagos budget", LongBody}

Places == {"start", "middle", "end"}

\* the text with the word added as a word of its own: before the text, after
\* its first word, or after the text
AddWord(text, word, place) ==
    IF place = "start" THEN word \o " " \o text
    ELSE IF place = "middle" /\ Find(text, " ") # 0
    THEN SubSeq(text, 1, Find(text, " ")) \o word \o " " \o From(text, Find(text, " ") + 1)
    ELSE text \o " " \o word

InitSimilarity ==
    /\ headline_text \in HeadlineTexts
    /\ body_text \in BodyTexts
    /\ added = <<>>
    /\ similarity = <<>>
    /\ similarity_score = <<>>
    /\ pc = "similarity"
    /\ IdleExtract
    /\ IdleRemoval
    /\ IdleConcurrent
    /\ IdleRender
    /\ IdleDistance
    /\ IdleParse
    /\ IdleClean
    /\ IdleCache

\* one call of _calculate_content_similarity on the texts as they are
CalculateSimilarity ==
    /\ pc = "similarity"
    /\ Len(similarity) < (IF added = <<>> THEN 1 ELSE 2)
    /\ similarity' = Append(similarity, _calculate_content_similarity(headline_text, body_text))
    /\ UNCHANGED <<pc, headline_text, body_text, added, similarity_score>>
    /\ UNCHANGED outside_similarity

\* the score _find_matching_headline computes for a headline and a body with
\* these raw contents
ScoreForMatching ==
    /\ pc = "similarity"
    /\ added = <<>>
    /\ similarity_score = <<>>
    /\ similarity_score' = <<SimilarityForMatching(headline_text, body_text)>>
    /\ UNCHANGED <<pc, headline_text, body_text, added, similarity>>
    /\ UNCHANGED outside_similarity

\* one keyword is added to both texts
AddKeyword ==
    /\ pc = "similarity"
    /\ added = <<>>
    /\ Len(similarity) = 1
    /\ \E keyword \in important_keywords, headline_place, body_place \in Places :
          /\ headline_text' = AddWord(headline_text, keyword, headline_place)
          /\ body_text' = AddWord(body_text, keyword, body_place)
          /\ added' = [keyword |-> keyword, headline_place |-> headline_place,
                       body_place |-> body_place]
    /\ UNCHANGED <<pc, similarity, similarity_score>>
    /\ UNCHANGED outside_similarity

NextSimilarity ==
    \/ CalculateSimilarity
    \/ ScoreForMatching
    \/ AddKeyword

SpecSimilarity == InitSimilarity /\ [][NextSimilarity]_vars

(***************************************************************************)
(* extract_news_articles on the documents of headline matching: up to      *)
(* MaxMatchStories stories out of three headlines and two bodies whose ids *)
(* and words put every strategy of _find_matching_headline to work.        *)
(***************************************************************************)
MaxMatchStories == 5

HeadlineGovernor == OneRun("u26", "18", "Bold", "Governor spoke about budget")
HeadlineHarvest == OneRun("u900", "18", "Bold", "Harvest festival opens")

MatchingPool == {HeadlineCity, HeadlineGovernor, HeadlineHarvest, BodyCouncil, BodyMarket}

MatchingDocuments ==
    UNION {{d \in [1..n -> MatchingPool] : \A x, y \in 1..n : x # y => d[x] # d[y]} :
              n \in 0..MaxMatchStories}

InitMatching ==
    /\ zip_file \in MatchingDocuments
    /\ pc = "scan"
    /\ i = 1
    /\ all_markers = <<>>
    /\ marker_story_ids = {}
    /\ detected_category = ""
    /\ all_stories = <<>>
    /\ headlines = <<>>
    /\ body_stories = <<>>
    /\ used_headlines = {}
    /\ matched_articles = <<>>
    /\ b = 1
    /\ IdleRemoval
    /\ IdleConcurrent
    /\ IdleRender
    /\ IdleSimilarity
    /\ IdleDistance
    /\ IdleParse
    /\ IdleClean
    /\ IdleCache

SpecMatching == InitMatching /\ [][Next]_vars

(***************************************************************************)
(* The id distance on its own: _calculate_id_distance on two story ids of  *)
(* up to MaxIdLen characters, letters and digits in any order.             *)
(***************************************************************************)
MaxIdLen == 3

IdChars == {"u", "0", "7"}

RECURSIVE IdsOfLen(_)
IdsOfLen(n) == IF n = 0 THEN {""} ELSE {id \o c : id \in IdsOfLen(n - 1), c \in IdChars}

StoryIds == UNION {IdsOfLen(n) : n \in 1..MaxIdLen}

InitDistance ==
    /\ body_id \in StoryIds
    /\ headline_id \in StoryIds
    /\ id_distance = <<>>
    /\ pc = "distance"
    /\ IdleExtract
    /\ IdleRemoval
    /\ IdleConcurrent
    /\ IdleRender
    /\ IdleSimilarity
    /\ IdleParse
    /\ IdleClean
    /\ IdleCache

\* id_distance = self._calculate_id_distance(body_id, headline['story_id'])
CalculateIdDistance ==
    /\ pc = "distance"
    /\ id_distance = <<>>
    /\ id_distance' = <<_calculate_id_distance(body_id, headline_id)>>
    /\ UNCHANGED <<pc, body_id, headline_id>>
    /\ UNCHANGED outside_distance

NextDistance == CalculateIdDistance

SpecDistance == InitDistance /\ [][NextDistance]_vars

(***************************************************************************)
(* extract_news_articles on documents with a dateline story: the dateline  *)
(* of each day of the week, as a bold line of 18 points or a regular line  *)
(* of 10 points, alone or with a headline and a body, in any order.        *)
(***************************************************************************)
Weekdays ==
    {"MONDAY", "TUESDAY", "WEDNESDAY", "THURSDAY", "FRIDAY", "SATURDAY", "SUNDAY"}

DatelineText(day) == day \o ", NOVEMBER 2, 2026"

DatelineStories ==
    {OneRun("u50", "18", "Bold", DatelineText(day)) : day \in Weekdays}
        \cup {OneRun("u50", "10", "Regular", DatelineText(day)) : day \in Weekdays}

\* a dateline story, with or without the headline and the body, in any order
DatelineDocuments ==
    UNION {{d \in [1..n -> DatelineStories \cup {HeadlineCity, BodyCouncil}] :
                /\ \A x, y \in 1..n : x # y => d[x] # d[y]
                /\ Cardinality({x \in 1..n : d[x] \in DatelineStories}) = 1} :
              n \in 1..3}

InitDateline ==
    /\ zip_file \in DatelineDocuments
    /\ pc = "scan"
    /\ i = 1
    /\ all_markers = <<>>
    /\ marker_story_ids = {}
    /\ detected_category = ""
    /\ all_stories = <<>>
    /\ headlines = <<>>
    /\ body_stories = <<>>
    /\ used_headlines = {}
    /\ matched_articles = <<>>
    /\ b = 1
    /\ IdleRemoval
    /\ IdleConcurrent
    /\ IdleRender
    /\ IdleSimilarity
    /\ IdleDistance
    /\ IdleParse
    /\ IdleClean
    /\ IdleCache

SpecDateline == InitDateline /\ [][Next]_vars

(***************************************************************************)
(* _parse_news_story on story markup of up to MaxParaRanges paragraph      *)
(* containers, with and without line breaks and blank text nodes, and      *)
(* _group_elements_by_paragraph on the content elements it returns.        *)
(***************************************************************************)
MaxParaRanges == 3

ChildSequences ==
    { <<>>,
      <<Content("One")>>,
      <<Content("One"), Content("two")>>,
      <<Content("One"), Br, Content("two")>>,
      <<Br, Content("One")>>,
      <<Content("One"), Content("  "), Br, Br, Content("two")>> }

ParaContainers ==
    {<<Run("12", "Regular", cs)>> : cs \in ChildSequences}
        \cup {<<Run("12", "Regular", <<Content("One")>>),
                Run("14", "Bold", <<Br, Content("two")>>)>>}

StoryMarkup ==
    {Story("u21", ps) : ps \in UNION {[1..n -> ParaContainers] : n \in 1..MaxParaRanges}}

InitParse ==
    /\ story_xml \in StoryMarkup
    /\ story_data = <<>>
    /\ paragraph_groups = <<>>
    /\ pc = "parsing"
    /\ IdleExtract
    /\ IdleRemoval
    /\ IdleConcurrent
    /\ IdleRender
    /\ IdleSimilarity
    /\ IdleDistance
    /\ IdleClean
    /\ IdleCache

\* one call of _parse_news_story on the markup
ParseNewsStory ==
    /\ pc = "parsing"
    /\ story_data = <<>>
    /\ story_data' = _parse_news_story(story_xml, StoryFile(0))
    /\ UNCHANGED <<pc, story_xml, paragraph_groups>>
    /\ UNCHANGED outside_parse

\* one call of _group_elements_by_paragraph on the elements of the parsed story
GroupElements ==
    /\ pc = "parsing"
    /\ story_data # <<>>
    /\ story_data.kind = "dict"
    /\ paragraph_groups = <<>>
    /\ paragraph_groups' = _group_elements_by_paragraph(story_data.dict.content_elements)
    /\ UNCHANGED <<pc, story_xml, story_data>>
    /\ UNCHANGED outside_parse

NextParse == ParseNewsStory \/ GroupElements

SpecParse == InitParse /\ [][NextParse]_vars

(***************************************************************************)
(* _clean_content_text on parsed body stories: a first paragraph with or   *)
(* without an author line, and up to MaxLaterParagraphs later paragraphs.  *)
(***************************************************************************)
MaxLaterParagraphs == 2

FirstParagraphs ==
    { "John Doe, Lagos",
      "John Doe, Lagos Ten chars.",
      "John Doe, Lagos Eleven char",
      "By Mary Ann",
      "By Mary Ann the vote passed",
      "Budget Vote",
      "the council voted 7-2 on the budget" }

LaterParagraphs == {"The vote was 7-2.", "Jane Roe, Abuja", "ok"}

ParagraphOf(text) == <<Run("12", "Regular", <<Content(text)>>)>>

CleanMarkup ==
    {Story("u21", <<ParagraphOf(first)>> \o [k \in 1..Len(later) |-> ParagraphOf(later[k])]) :
         first \in FirstParagraphs,
         later \in UNION {[1..n -> LaterParagraphs] : n \in 0..MaxLaterParagraphs}}

CleanStories == {_parse_news_story(markup, StoryFile(0)).dict : markup \in CleanMarkup}

InitClean ==
    /\ clean_story \in CleanStories
    /\ plain_content = <<>>
    /\ pc = "clean"
    /\ IdleExtract
    /\ IdleRemoval
    /\ IdleConcurrent
    /\ IdleRender
    /\ IdleSimilarity
    /\ IdleDistance
    /\ IdleParse
    /\ IdleCache

\* one call of _clean_content_text on the story
CleanContentText ==
    /\ pc = "clean"
    /\ plain_content = <<>>
    /\ plain_content' = <<_clean_content_text(clean_story)>>
    /\ UNCHANGED <<pc, clean_story>>
    /\ UNCHANGED outside_clean

NextClean == CleanContentText

SpecClean == InitClean /\ [][NextClean]_vars

(***************************************************************************)
(* extract_news_articles on documents whose body stories find no headline: *)
(* bodies with and without bold elements, with bold text of 99 and of 100  *)
(* characters, with a first paragraph of 100 and of 101 characters, alone  *)
(* or next to a headline.                                                  *)
(***************************************************************************)
MaxFallbackStories == 2

LongText99 == Text99a \o " " \o Text99b
LongText100 == LongText99 \o "s"

BodyBoldLead ==
    Story("u22", << <<Run("12", "Regular", <<Content("John Doe, Lagos")>>)>>,
                    <<Run("10", "Bold", <<Content("Tiny bold")>>),
                      Run("12", "Bold", <<Content("Budget approved")>>),
                      Run("12", "Regular",
                          <<Content("by the council after a long debate on Monday.")>>)>> >>)
BodyBold99 ==
    Story("u23", << <<Run("12", "Bold", <<Content(LongText99)>>)>>,
                    <<Run("12", "Regular", <<Content("More follows here.")>>)>> >>)
BodyBold100 ==
    Story("u24", << <<Run("12", "Bold", <<Content(LongText100)>>)>>,
                    <<Run("12", "Regular", <<Content("More follows here.")>>)>> >>)
BodyLong101 ==
    Story("u27", << <<Run("12", "Regular", <<Content(LongText100 \o "x")>>)>>,
                    <<Run("12", "Regular", <<Content("More follows here.")>>)>> >>)
BodyPeriod ==
    Story("u28", << <<Run("12", "Regular",
                          <<Content("Jos. The city woke up to rain and the markets stayed closed")>>)>>,
                    <<Run("12", "Regular", <<Content("More follows here.")>>)>> >>)

FallbackPool ==
    {BodyCouncil, BodyBoldLead, BodyBold99, BodyBold100, BodyLong101, BodyPeriod,
     HeadlineCity, HeadlineHarvest}

FallbackDocuments ==
    UNION {{d \in [1..n -> FallbackPool] : \A x, y \in 1..n : x # y => d[x] # d[y]} :
              n \in 1..MaxFallbackStories}

InitFallback ==
    /\ zip_file \in FallbackDocuments
    /\ pc = "scan"
    /\ i = 1
    /\ all_markers = <<>>
    /\ marker_story_ids = {}
    /\ detected_category = ""
    /\ all_stories = <<>>
    /\ headlines = <<>>
    /\ body_stories = <<>>
    /\ used_headlines = {}
    /\ matched_articles = <<>>
    /\ b = 1
    /\ IdleRemoval
    /\ IdleConcurrent
    /\ IdleRender
    /\ IdleSimilarity
    /\ IdleDistance
    /\ IdleParse
    /\ IdleClean
    /\ IdleCache

SpecFallback == InitFallback /\ [][Next]_vars

(***************************************************************************)
(* The taxonomy caches over up to MaxCalls calls of fetch_all_categories,  *)
(* fetch_all_authors and clear_cache (the /categories, /users and          *)
(* /cache/clear endpoints and the posting code), one call at a time: the   *)
(* endpoints are coroutines that never yield inside a call.  The server    *)
(* answers each request with data or with an error.                        *)
(***************************************************************************)
MaxCalls == 4

Answer(status, json) == [status |-> status, json |-> json]

Category(id, name, parent) == [id |-> id, name |-> name, parent |-> parent]

CategoryAnswers ==
    { Answer("error", <<>>),
      Answer("ok", <<Category(1, "News", 0), Category(2, "Sports", 0), Category(3, "Local", 1)>>),
      Answer("ok", <<Category(1, "News", 0), Category(3, "Local", 1), Category(4, "news", 1)>>) }

Author(id, name, username, email) ==
    [id |-> id, name |-> name, username |-> username, email |-> email]

\* a full page: one named author and per_page - 1 accounts without any name
FullPage ==
    [k \in 1..per_page |-> IF k = 1 THEN Author(8, "", " Desk ", "") ELSE Author(100 + k, "", "", "")]

\* the answers to the requests for page 1, 2, ... of one call
AuthorAnswers ==
    { <<Answer("error", <<>>)>>,
      <<Answer("ok", <<>>)>>,
      <<Answer("ok", <<Author(7, "Jane Roe", "jroe", ""), Author(9, "", "", "")>>)>>,
      <<Answer("ok", FullPage), Answer("ok", <<Author(7, "Jane Roe", "jroe", "")>>)>>,
      <<Answer("ok", FullPage), Answer("error", <<>>)>> }

Logged(op, call) ==
    [op |-> op, requests |-> call.requests, raised |-> call.raised, result |-> call.result]

InitCache ==
    /\ _CATEGORIES_CACHE = NoneResult
    /\ _AUTHORS_CACHE = NoneResult
    /\ call_log = <<>>
    /\ pc = "cache"
    /\ IdleExtract
    /\ IdleRemoval
    /\ IdleConcurrent
    /\ IdleRender
    /\ IdleSimilarity
    /\ IdleDistance
    /\ IdleParse
    /\ IdleClean

fetch_all_categories ==
    /\ pc = "cache"
    /\ Len(call_log) < MaxCalls
    /\ \E answer \in CategoryAnswers :
          /\ _CATEGORIES_CACHE' = CategoriesCall(_CATEGORIES_CACHE, answer).cache
          /\ call_log' = Append(call_log, Logged("fetch_all_categories",
                                                 CategoriesCall(_CATEGORIES_CACHE, answer)))
    /\ UNCHANGED <<pc, _AUTHORS_CACHE>>
    /\ UNCHANGED outside_cache

fetch_all_authors ==
    /\ pc = "cache"
    /\ Len(call_log) < MaxCalls
    /\ \E answers \in AuthorAnswers :
          /\ _AUTHORS_CACHE' = AuthorsCall(_AUTHORS_CACHE, answers).cache
          /\ call_log' = Append(call_log, Logged("fetch_all_authors",
                                                 AuthorsCall(_AUTHORS_CACHE, answers)))
    /\ UNCHANGED <<pc, _CATEGORIES_CACHE>>
    /\ UNCHANGED outside_cache

clear_cache ==
    /\ pc = "cache"
    /\ Len(call_log) < MaxCalls
    /\ _CATEGORIES_CACHE' = NoneResult
    /\ _AUTHORS_CACHE' = NoneResult
    /\ call_log' = Append(call_log, [op |-> "clear_cache", requests |-> 0,
                                     raised |-> FALSE, result |-> EmptyDict])
    /\ UNCHANGED pc
    /\ UNCHANGED outside_cache

NextCache == fetch_all_categories \/ fetch_all_authors \/ clear_cache

SpecCache == InitCache /\ [][NextCache]_vars

(***************************************************************************)
(* extract_news_articles on documents of a section marker, two             *)
(* headline-shaped stories and a body, in any order.                       *)
(***************************************************************************)
MaxLeadingStories == 3

LeadingPool == {MarkerNews, HeadlineCity, HeadlineHarvest, BodyCouncil}

LeadingDocuments ==
    UNION {{d \in [1..n -> LeadingPool] : \A x, y \in 1..n : x # y => d[x] # d[y]} :
              n \in 1..MaxLeadingStories}

InitLeading ==
    /\ zip_file \in LeadingDocuments
    /\ pc = "scan"
    /\ i = 1
    /\ all_markers = <<>>
    /\ marker_story_ids = {}
    /\ detected_category = ""
    /\ all_stories = <<>>
    /\ headlines = <<>>
    /\ body_stories = <<>>
    /\ used_headlines = {}
    /\ matched_articles = <<>>
    /\ b = 1
    /\ IdleRemoval
    /\ IdleConcurrent
    /\ IdleRender
    /\ IdleSimilarity
    /\ IdleDistance
    /\ IdleParse
    /\ IdleClean
    /\ IdleCache

SpecLeading == InitLeading /\ [][Next]_vars

(***************************************************************************)
(* extract_news_articles on documents whose headlines share no word with   *)
(* the bodies and lie at the id distances 1, 66 and 67 from a body, or     *)
(* have an id without digits, next to a headline that matches by content.  *)
(***************************************************************************)
MaxProximityStories == 3

BodyProximity ==
    Story("u100", << <<Run("12", "Regular", <<Content("John Doe, Lagos")>>)>>,
                     <<Run("12", "Regular", <<Content("The council voted 7-2 to approve...")>>)>> >>)
BodyNoDigits ==
    Story("ub", << <<Run("12", "Regular", <<Content("Jane Roe, Abuja")>>)>>,
                   <<Run("12", "Regular", <<Content("The senate passed the bill on Tuesday...")>>)>> >>)
HeadlineNear == OneRun("u101", "18", "Bold", "Harvest festival opens")
Headline66 == OneRun("u166", "18", "Bold", "Rain stops play")
Headline67 == OneRun("u167", "18", "Bold", "Markets rally")
HeadlineNoDigits == OneRun("uh", "18", "Bold", "Floods hit coast")
HeadlineVote == OneRun("u900", "18", "Bold", "Council vote due")

ProximityPool ==
    {BodyProximity, BodyNoDigits, HeadlineNear, Headline66, Headline67, HeadlineNoDigits,
     HeadlineVote}

ProximityDocuments ==
    UNION {{d \in [1..n -> ProximityPool] : \A x, y \in 1..n : x # y => d[x] # d[y]} :
              n \in 1..MaxProximityStories}

InitProximity ==
    /\ zip_file \in ProximityDocuments
    /\ pc = "scan"
    /\ i = 1
    /\ all_markers = <<>>
    /\ marker_story_ids = {}
    /\ detected_category = ""
    /\ all_stories = <<>>
    /\ headlines = <<>>
    /\ body_stories = <<>>
    /\ used_headlines = {}
    /\ matched_articles = <<>>
    /\ b = 1
    /\ IdleRemoval
    /\ IdleConcurrent
    /\ IdleRender
    /\ IdleSimilarity
    /\ IdleDistance
    /\ IdleParse
    /\ IdleClean
    /\ IdleCache

SpecProximity == InitProximity /\ [][Next]_vars

(***************************************************************************)
(* extract_news_articles on documents with tied headlines: two headlines   *)
(* with the same content similarity to the bodies, and two headlines that  *)
(* share no word with them at the same id distance from the first body.    *)
(***************************************************************************)
MaxTieStories == 4

BodyTies ==
    Story("u101", << <<Run("12", "Regular", <<Content("Jane Roe, Abuja")>>)>>,
                     <<Run("12", "Regular", <<Content("The council met again on Friday...")>>)>> >>)
HeadlineTieA == OneRun("u300", "18", "Bold", "Council vote due")
HeadlineTieB == OneRun("u200", "18", "Bold", "Council seat won")
HeadlineNearA == OneRun("u95", "18", "Bold", "Rain stops play")
HeadlineNearB == OneRun("u105", "18", "Bold", "Markets rally")

TiePool == {BodyProximity, BodyTies, HeadlineTieA, HeadlineTieB, HeadlineNearA, HeadlineNearB}

TieDocuments ==
    UNION {{d \in [1..n -> TiePool] : \A x, y \in 1..n : x # y => d[x] # d[y]} :
              n \in 1..MaxTieStories}

InitTies ==
    /\ zip_file \in TieDocuments
    /\ pc = "scan"
    /\ i = 1
    /\ all_markers = <<>>
    /\ marker_story_ids = {}
    /\ detected_category = ""
    /\ all_stories = <<>>
    /\ headlines = <<>>
    /\ body_stories = <<>>
    /\ used_headlines = {}
    /\ matched_articles = <<>>
    /\ b = 1
    /\ IdleRemoval
    /\ IdleConcurrent
    /\ IdleRender
    /\ IdleSimilarity
    /\ IdleDistance
    /\ IdleParse
    /\ IdleClean
    /\ IdleCache

SpecTies == InitTies /\ [][Next]_vars

(***************************************************************************)
(* extract_news_articles on documents whose bodies and headlines alternate *)
(* and whose headlines are mostly left unmatched.                          *)
(***************************************************************************)
MaxOrderStories == 4

OrderPool == {BodyProximity, BodyNoDigits, HeadlineNear, Headline67, HeadlineNoDigits}

OrderDocuments ==
    UNION {{d \in [1..n -> OrderPool] : \A x, y \in 1..n : x # y => d[x] # d[y]} :
              n \in 1..MaxOrderStories}

InitOrder ==
    /\ zip_file \in OrderDocuments
    /\ pc = "scan"
    /\ i = 1
    /\ all_markers = <<>>
    /\ marker_story_ids = {}
    /\ detected_category = ""
    /\ all_stories = <<>>
    /\ headlines = <<>>
    /\ body_stories = <<>>
    /\ used_headlines = {}
    /\ matched_articles = <<>>
    /\ b = 1
    /\ IdleRemoval
    /\ IdleConcurrent
    /\ IdleRender
    /\ IdleSimilarity
    /\ IdleDistance
    /\ IdleParse
    /\ IdleClean
    /\ IdleCache

SpecOrder == InitOrder /\ [][Next]_vars

(***************************************************************************)
(* The vocabulary of the properties.                                       *)
(***************************************************************************)
Done == pc = "done"

Articles == 1..Len(matched_articles)

\* the text of the one Content element of a story of the marker shape
MarkerText(story) == Strip(ContentsOf(story.paras[1][1])[1].text)

\* a story the first pass reads as a marker: its bytes parse, it has a Story
\* element, and it is one paragraph, one character range, one short Content
IsMarker(story) == story.wf = "ok" /\ _is_category_marker(story)

ValidMarker(story) == IsMarker(story) /\ _is_valid_category(MarkerText(story))

\* the length of the longest run of valid markers at the head of the document
AcceptedPrefix ==
    CHOOSE k \in 0..Len(zip_file) :
        /\ \A j \in 1..k : ValidMarker(zip_file[j])
        /\ k < Len(zip_file) => ~ValidMarker(zip_file[k + 1])

\* the position in the document of the story with this id
PositionOf(id) == CHOOSE j \in 1..Len(zip_file) : zip_file[j].Self = id

\* the story id is that of some article, as its body or as its headline
InSomeArticle(id) ==
    \E k \in Articles : matched_articles[k].story_id = id
                        \/ matched_articles[k].headline_story_id = id

(***************************************************************************)
(* C1: within one run no headline is used twice: no story id is the        *)
(* headline_story_id of two articles, and while the bodies are matched the *)
(* set of used headlines is exactly the set of headlines handed out, so a  *)
(* headline once returned is never returned for a later body.              *)
(***************************************************************************)
C1_HeadlineUsedAtMostOnce ==
    /\ \A x, y \in Articles :
          (x # y /\ matched_articles[x].headline_story_id # "")
              => matched_articles[x].headline_story_id
                     # matched_articles[y].headline_story_id
    /\ pc = "match" =>
          used_headlines = {matched_articles[k].headline_story_id : k \in Articles} \ {""}

\* two bodies compete for one headline: the first has it, and the second, which
\* would get it from a matcher with nothing used, goes without
C1_Witness ==
    /\ Done
    /\ \E x, y \in 1..Len(body_stories) :
          /\ x < y
          /\ matched_articles[x].headline_story_id # ""
          /\ matched_articles[y].headline_story_id = ""
          /\ LET alone == _find_matching_headline(body_stories[y], headlines, {})
             IN  alone.found
                 /\ alone.headline.story_id = matched_articles[x].headline_story_id

(***************************************************************************)
(* C2: a document whose stories at positions 0 and 1 are markers with the  *)
(* texts "247" and "Business" gets the document category "247Business".    *)
(***************************************************************************)
C2_Marker247Business ==
    ( /\ pc # "scan"
      /\ Len(zip_file) >= 2
      /\ IsMarker(zip_file[1]) /\ MarkerText(zip_file[1]) = "247"
      /\ IsMarker(zip_file[2]) /\ MarkerText(zip_file[2]) = "Business" )
        => detected_category = "247Business"

(***************************************************************************)
(* C3: the document category is the texts, concatenated in order with no   *)
(* separator, of the stories at positions 0..k-1, k the largest number     *)
(* such that every story below position k is a marker with valid category  *)
(* text; exactly those stories are the excluded markers.  A valid marker   *)
(* after the first gap adds nothing.                                       *)
(***************************************************************************)
C3_CategoryIsLeadingMarkers ==
    Done =>
        /\ detected_category
               = Join([j \in 1..AcceptedPrefix |-> MarkerText(zip_file[j])], "")
        /\ marker_story_ids = {zip_file[j].Self : j \in 1..AcceptedPrefix}

\* a marker at position 0, a gap, and a valid marker after the gap
C3_Witness ==
    /\ Done
    /\ AcceptedPrefix = 1
    /\ detected_category = MarkerText(zip_file[1])
    /\ \E j \in 3..Len(zip_file) : ValidMarker(zip_file[j])

(***************************************************************************)
(* C4: a marker-shaped story whose text holds no letter (the text "37") is *)
(* never recorded as a marker, so it adds nothing to the category parts,   *)
(* its id is never in the marker id set, and its text is never its         *)
(* category.                                                               *)
(***************************************************************************)
NoLetterMarker(story) == IsMarker(story) /\ ~AnyAlpha(MarkerText(story))

C5_PrefixMarkersExcluded ==
    Done =>
        /\ \A j \in 1..AcceptedPrefix : ~InSomeArticle(zip_file[j].Self)
        /\ \A j \in (AcceptedPrefix + 1)..Len(zip_file) :
              IsMarker(zip_file[j]) =>
                  LET parsed == _parse_news_story(zip_file[j], StoryFile(j - 1))
                  IN  InSomeArticle(zip_file[j].Self)
                          <=> ( /\ parsed.kind = "dict"
                                /\ ContentType(parsed.dict) \in {"headline", "body_content"} )

\* a marker at position 0 is left out, and a marker-shaped story after the
\* gap is in an article
C5_Witness ==
    /\ Done
    /\ AcceptedPrefix >= 1
    /\ ~InSomeArticle(zip_file[1].Self)
    /\ \E j \in (AcceptedPrefix + 2)..Len(zip_file) :
          ValidMarker(zip_file[j]) /\ InSomeArticle(zip_file[j].Self)

(***************************************************************************)
(* C6: every story that is kept, and every article made from it, has the   *)
(* story's own category when it has one, and the document category when it *)
(* has none: the document category never replaces an own category.         *)
(***************************************************************************)
OwnCategory(id) == _extract_category_from_story(zip_file[PositionOf(id)])

C6_CategoryPropagation ==
    Done =>
    /\ \A k \in 1..Len(all_stories) :
          all_stories[k].category
              = IF OwnCategory(all_stories[k].story_id) # ""
                THEN OwnCategory(all_stories[k].story_id)
                ELSE detected_category
    /\ \A k \in Articles :
          matched_articles[k].category
              = IF OwnCategory(matched_articles[k].story_id) # ""
                THEN OwnCategory(matched_articles[k].story_id)
                ELSE detected_category

\* a document with a category, an article that keeps its own and an article
\* that gets the document's
C6_Witness ==
    /\ Done
    /\ detected_category # ""
    /\ \E x, y \in Articles :
          /\ OwnCategory(matched_articles[x].story_id) # ""
          /\ matched_articles[x].category # detected_category
          /\ OwnCategory(matched_articles[y].story_id) = ""
          /\ matched_articles[y].category = detected_category

(***************************************************************************)
(* C7: in the returned list every body story is the story_id of exactly    *)
(* one news_article; every headline is either the headline_story_id of     *)
(* exactly one news_article or the story_id of exactly one                 *)
(* standalone_headline, never both; an unknown or metadata story is in no  *)
(* article; every article comes from a kept story.                         *)
(***************************************************************************)
AsBody(id) ==
    {k \in Articles : matched_articles[k].article_type = "news_article"
                      /\ matched_articles[k].story_id = id}

AsMatchedHeadline(id) ==
    {k \in Articles : matched_articles[k].article_type = "news_article"
                      /\ matched_articles[k].headline_story_id = id}

AsStandalone(id) ==
    {k \in Articles : matched_articles[k].article_type = "standalone_headline"
                      /\ matched_articles[k].story_id = id}

C7_OneArticlePerStory ==
    Done =>
        /\ \A n \in 1..Len(all_stories) :
              LET id == all_stories[n].story_id
                  type == ContentType(all_stories[n])
              IN  /\ type = "body_content" =>
                        /\ Cardinality(AsBody(id)) = 1
                        /\ AsMatchedHeadline(id) = {} /\ AsStandalone(id) = {}
                  /\ type = "headline" =>
                        /\ Cardinality(AsMatchedHeadline(id))
                               + Cardinality(AsStandalone(id)) = 1
                        /\ AsBody(id) = {}
                  /\ type \notin {"body_content", "headline"} => ~InSomeArticle(id)
        /\ \A k \in Articles :
              /\ matched_articles[k].article_type \in {"news_article", "standalone_headline"}
              /\ \E n \in 1..Len(all_stories) :
                    all_stories[n].story_id = matched_articles[k].story_id

\* a body with its matched headline, and a headline left standalone
C7_Witness ==
    /\ Done
    /\ \E x, y \in Articles :
          /\ matched_articles[x].article_type = "news_article"
          /\ matched_articles[x].headline_story_id # ""
          /\ matched_articles[y].article_type = "standalone_headline"

(***************************************************************************)
(* C8: a story whose bytes do not parse, or whose processing raises, is    *)
(* passed over: each pass goes on to the next story with nothing added,    *)
(* the story is in no article, and every other story that has text and is  *)
(* no excluded marker is kept for the matching.                            *)
(***************************************************************************)
Failing(story) == story.wf # "ok"

C8_FailedStoryLeavesNothing ==
    /\ \A j \in 1..Len(zip_file) :
          Failing(zip_file[j]) =>
              /\ ~InSomeArticle(zip_file[j].Self)
              /\ \A n \in 1..Len(all_stories) : all_stories[n].story_id # zip_file[j].Self
    /\ Done =>
          \A j \in 1..Len(zip_file) :
              ( /\ ~Failing(zip_file[j])
                /\ zip_file[j].Self \notin marker_story_ids
                /\ _parse_news_story(zip_file[j], StoryFile(j - 1)).kind = "dict" )
                  => \E n \in 1..Len(all_stories) :
                        all_stories[n].story_id = zip_file[j].Self

C8_FailedStorySkipped ==
    /\ ( pc = "scan" /\ i <= Len(zip_file) /\ Failing(zip_file[i]) )
          => ( pc' = "scan" /\ i' = i + 1 /\ all_markers' = all_markers )
    /\ ( pc = "parse" /\ i <= Len(zip_file) /\ Failing(zip_file[i]) )
          => ( pc' = "parse" /\ i' = i + 1 /\ all_stories' = all_stories )

C8_FailureIsolation ==
    []C8_FailedStoryLeavesNothing /\ [][C8_FailedStorySkipped]_vars

\* a story that fails at position 0, and an article from a story after it
C8_Witness ==
    /\ Done
    /\ Len(zip_file) >= 2
    /\ Failing(zip_file[1])
    /\ \E k \in Articles : PositionOf(matched_articles[k].story_id) > 1

(***************************************************************************)
(* C9, as the specification states it: for every paragraph and non-empty   *)
(* author name, removing the author from the cleaned paragraph gives the   *)
(* cleaned paragraph again.                                                *)
(***************************************************************************)
C9_RemovalIdempotent ==
    Len(cleaned) = 2 => cleaned[2] = cleaned[1]

(***************************************************************************)
(* C9, as the code has it: a second removal leaves the once-cleaned        *)
(* paragraph as it is exactly when that paragraph does not begin with the  *)
(* author name (letter case aside) and has no function word after its      *)
(* first position; in every other case the second removal cuts more.       *)
(***************************************************************************)
StableUnderRemoval(text, author) ==
    ~LitAtCI(text, 1, author) /\ FirstFunctionWord(text) \in {0, 1}

C9_SecondRemovalChangesExactlyWhen ==
    Len(cleaned) = 2 =>
        ( cleaned[2] = cleaned[1] <=> StableUnderRemoval(cleaned[1], author_name) )

\* the first removal took the author off, and the second, through the
\* function-word fallback, cuts the cleaned paragraph again
C9_Witness ==
    /\ Len(cleaned) = 2
    /\ cleaned[1] # paragraph
    /\ ~LitAtCI(cleaned[1], 1, author_name)
    /\ cleaned[2] # cleaned[1]
    /\ cleaned[2] # ""

(***************************************************************************)
(* C10: a kept story that is no metadata is a headline exactly when its    *)
(* average font size is at least 15, one of its elements is bold, its text *)
(* is under 100 characters and it has at most one paragraph: 99 characters *)
(* can be a headline, 100 cannot.                                          *)
(***************************************************************************)
HeadlineShape(story) ==
    /\ SumFontSizes(story.content_elements, 1) >= 15 * Len(story.content_elements)
    /\ \E k \in 1..Len(story.content_elements) : story.content_elements[k].is_bold
    /\ Len(story.raw_content) < 100
    /\ Len(story.paragraphs) <= 1

C10_HeadlineBoundary ==
    Done =>
        \A n \in 1..Len(all_stories) :
            ~_is_metadata_content(all_stories[n].raw_content) =>
                ( (\E k \in 1..Len(headlines) : headlines[k] = all_stories[n])
                      <=> HeadlineShape(all_stories[n]) )

\* two stories of average size exactly 15, bold, one paragraph: the one of 99
\* characters is a headline and has its article, the one of 100 has none
C10_Witness ==
    /\ Done
    /\ \E x, y \in 1..Len(all_stories) :
          /\ Len(all_stories[x].raw_content) = 99
          /\ Len(all_stories[y].raw_content) = 100
          /\ \A n \in {x, y} :
                /\ SumFontSizes(all_stories[n].content_elements, 1)
                       = 15 * Len(all_stories[n].content_elements)
                /\ \E k \in 1..Len(all_stories[n].content_elements) :
                      all_stories[n].content_elements[k].is_bold
                /\ Len(all_stories[n].paragraphs) = 1
          /\ InSomeArticle(all_stories[x].story_id)
          /\ ~InSomeArticle(all_stories[y].story_id)

(***************************************************************************)
(* C11: a kept story whose raw content the metadata filter matches (the    *)
(* sole content "Photo: Jane Smith", or a content shorter than 3           *)
(* characters) is, whatever its formatting, no candidate of the headline   *)
(* matching and no body story, and its id is neither the story_id nor the  *)
(* headline_story_id of any article.                                       *)
(***************************************************************************)
MetadataStories ==
    {all_stories[k].story_id : k \in {j \in 1..Len(all_stories) :
                                        _is_metadata_content(all_stories[j].raw_content)}}

C11_MetadataNeverOutput ==
    pc \in {"match", "done"} =>
        \A id \in MetadataStories :
            /\ \A k \in 1..Len(headlines) : headlines[k].story_id # id
            /\ \A k \in 1..Len(body_stories) : body_stories[k].story_id # id
            /\ ~InSomeArticle(id)

\* the photo credit in bold 18 points, the shape of a headline, and the story
\* "37" of two characters are both kept by the second pass, and the run ends
\* with articles, none of them theirs
C11_Witness ==
    /\ Done
    /\ \E x, y \in 1..Len(all_stories) :
          /\ all_stories[x].raw_content = "Photo: Jane Smith"
          /\ _determine_story_type(all_stories[x]) = "headline"
          /\ Len(all_stories[y].raw_content) < 3
    /\ matched_articles # <<>>
    /\ \A id \in MetadataStories : ~InSomeArticle(id)


(***************************************************************************)
(* C12: the document of the marker "news" at position 0, the headline      *)
(* story "City Council Approves Budget" (one paragraph, one bold run of    *)
(* size 18) and the body story of size 12 with the paragraphs "John Doe,   *)
(* Lagos" and "The council voted 7-2 to approve...", the last two in       *)
(* either order, ends with exactly one news_article: category "news",      *)
(* author "John Doe", headline "City Council Approves Budget", content     *)
(* starting with "The council voted 7-2".                                  *)
(***************************************************************************)
EndToEndDocument ==
    /\ Len(zip_file) = 3
    /\ zip_file[1] = MarkerNews
    /\ {zip_file[2], zip_file[3]} = {HeadlineCity, BodyCouncil}

NewsArticles == {k \in Articles : matched_articles[k].article_type = "news_article"}

C12_EndToEndScenario ==
    (Done /\ EndToEndDocument) =>
        /\ Cardinality(NewsArticles) = 1
        /\ \A k \in NewsArticles :
              /\ matched_articles[k].category = "news"
              /\ matched_articles[k].author = "John Doe"
              /\ matched_articles[k].headline = "City Council Approves Budget"
              /\ LitAt(matched_articles[k].content, 1, "The council voted 7-2")


(***************************************************************************)
(* C13: two calls on two documents share no mutable detector or matcher    *)
(* state.  In every interleaving of their steps, a call that has returned  *)
(* has returned the articles it returns when it runs alone, and while a    *)
(* call matches, the headlines open to it are all its headlines except     *)
(* those its own articles hold: a headline the other call has marked used  *)
(* is still available.                                                     *)
(***************************************************************************)
OwnHeadlineIds(c) ==
    {calls[c].matched_articles[k].headline_story_id :
         k \in 1..Len(calls[c].matched_articles)}

C14_SameHtml ==
    (pc = "render" /\ Len(content_html) = 2) => content_html[1] = content_html[2]

C14_StoryUnmodified == parsed_story' = parsed_story

Tagged(tag, html_text) ==
    IF tag = "" THEN html_text ELSE "<" \o tag \o ">" \o html_text \o "</" \o tag \o ">"

HeadingAsStated(element) ==
    /\ element.font_size >= 20
           => LitAt(_wrap_text_with_formatting(element.text, element), 1, "<h3>")
    /\ LitAt(_wrap_text_with_formatting(element.text, element), 1, "<h4>")
           => (~element.is_bold /\ element.font_size >= 16 /\ element.font_size < 20)
    /\ \E heading \in {"", "h3", "h4"} :
           _wrap_text_with_formatting(element.text, element)
               = Tagged(heading,
                        Tagged(IF element.is_italic THEN "em" ELSE "",
                               Tagged(IF element.is_bold THEN "strong" ELSE "",
                                      element.text)))

C15_HeadingBySize ==
    (pc = "render" /\ content_html # <<>>) =>
        \A k \in 1..Len(parsed_story.content_elements) :
            HeadingAsStated(parsed_story.content_elements[k])


(***************************************************************************)
(* C16: the content-similarity score _find_matching_headline computes for  *)
(* a headline and a body includes 2 points for each capitalized phrase     *)
(* that occurs both in the headline's raw content and in the first 400     *)
(* characters of the body's raw content: it is the word overlap score,     *)
(* plus 2 for each such phrase, plus 1 for each shared keyword.            *)
(***************************************************************************)
SharedPhrases(headline_raw, body_raw) ==
    Entities(headline_raw) \cap Entities(Take(body_raw, 400))

C16_EntityPointsInMatching ==
    (pc = "similarity" /\ added = <<>> /\ similarity_score # <<>>) =>
        similarity_score[1]
            = SimilarityScore(LongWords(Lower(headline_text)) \ stop_words,
                              LongWords(Take(Lower(body_text), 300)) \ stop_words,
                              2 * Cardinality(SharedPhrases(headline_text, body_text))
                                  + Cardinality(CommonKeywords(Lower(headline_text),
                                                               Lower(body_text))))

(***************************************************************************)
(* C20: adding one keyword of the importance list to both texts, at any    *)
(* position and for a body of any length, never makes                      *)
(* _calculate_content_similarity smaller than before.                      *)
(***************************************************************************)
C20_KeywordMonotone ==
    (pc = "similarity" /\ Len(similarity) = 2) => RatLeq(similarity[1], similarity[2])

(***************************************************************************)
(* C20, amended: adding one keyword of the importance list to both texts   *)
(* never makes _calculate_content_similarity smaller when the keyword is   *)
(* added as a word of its own before or after each text and the body with  *)
(* the keyword is at most 300 characters long.                             *)
(***************************************************************************)
AddedAtAnEnd ==
    added # <<>> /\ added.headline_place \in {"start", "end"}
                 /\ added.body_place \in {"start", "end"}

C20_KeywordMonotoneInWindow ==
    (pc = "similarity" /\ Len(similarity) = 2 /\ AddedAtAnEnd /\ Len(body_text) <= 300)
        => RatLeq(similarity[1], similarity[2])

\* texts that share a capitalized phrase, scored, then scored again with a
\* keyword before the headline and after the body: the score has grown
C20_Witness ==
    /\ pc = "similarity"
    /\ Len(similarity) = 2
    /\ added # <<>> /\ added.headline_place = "start" /\ added.body_place = "end"
    /\ Len(body_text) <= 300
    /\ SharedPhrases(headline_text, body_text) # {}
    /\ RatLess(similarity[1], similarity[2])


(***************************************************************************)
(* C17: for a body story and the set U of the headlines that are not in    *)
(* the used set, _find_matching_headline returns a headline of U with the  *)
(* maximum content-similarity score when that score is at least 2;         *)
(* otherwise a headline of U with the maximum combined score               *)
(* 0.7 x content score + 0.3 x max(0, 10 - distance / 10) when that score  *)
(* is at least 1; otherwise no headline.  It never returns a headline      *)
(* whose id is in the used set, and the used set changes only by the id of *)
(* the headline returned, which the caller adds.                           *)
(***************************************************************************)
Matching == pc = "match" /\ b <= Len(body_stories)

Unused == {k \in 1..Len(headlines) : headlines[k].story_id \notin used_headlines}

\* the content score of each unused headline for the body story at hand
ContentScores ==
    [k \in Unused |-> SimilarityForMatching(headlines[k].raw_content,
                                            body_stories[b].raw_content)]

\* 0.7 x content score + 0.3 x max(0, 10 - distance / 10)
CombinedScores(content) ==
    [k \in Unused |->
        CombinedScore(content[k],
                      IdScore(_calculate_id_distance(body_stories[b].story_id,
                                                     headlines[k].story_id)))]

\* the headlines whose score is the maximum
Best(scores) ==
    {k \in DOMAIN scores : \A m \in DOMAIN scores : RatLeq(scores[m], scores[k])}

Returned == _find_matching_headline(body_stories[b], headlines, used_headlines)

ReturnsAsStated(returned, content, combined) ==
    /\ IF \E k \in Best(content) : RatLeq(Rat(2, 1), content[k])
       THEN returned.found /\ \E k \in Best(content) : returned.headline = headlines[k]
       ELSE IF \E k \in Best(combined) : RatLeq(Rat(1, 1), combined[k])
       THEN returned.found /\ \E k \in Best(combined) : returned.headline = headlines[k]
       ELSE ~returned.found
    /\ returned.found => returned.headline.story_id \notin used_headlines

ReturnsByScores(returned, content) ==
    ReturnsAsStated(returned, content, CombinedScores(content))

C17_ReturnedHeadline == Matching => ReturnsByScores(Returned, ContentScores)

C17_UsedSetStep ==
    (Matching /\ b' = b + 1) =>
        used_headlines' = used_headlines
                              \cup (IF Returned.found THEN {Returned.headline.story_id}
                                    ELSE {})

C17_MatchingStrategy == []C17_ReturnedHeadline /\ [][C17_UsedSetStep]_vars

\* a body story with one headline used and two unused: the best content score
\* of the unused is below 2, and the headline with the best combined score is
\* returned
C17_Witness ==
    /\ Matching
    /\ used_headlines # {}
    /\ Cardinality(Unused) = 2
    /\ \A k \in Unused : RatLess(ContentScores[k], Rat(2, 1))
    /\ Returned.found
    /\ \E k \in Unused : k \notin Best(CombinedScores(ContentScores))


(***************************************************************************)
(* C18: the id distance is the absolute difference of the numbers formed   *)
(* by the digit suffixes of the two ids, for an id with several runs of    *)
(* digits the trailing run, and it is infinite when either id has no       *)
(* digit.                                                                  *)
(***************************************************************************)
HasDigit(id) == \E k \in 1..Len(id) : IsDigit(Chr(id, k))

\* p..q is a maximal run of digits of the id
DigitRun(id, p, q) ==
    /\ p <= q
    /\ \A k \in p..q : IsDigit(Chr(id, k))
    /\ p = 1 \/ ~IsDigit(Chr(id, p - 1))
    /\ q = Len(id) \/ ~IsDigit(Chr(id, q + 1))

\* the number written by the last run of digits
TrailingNumber(id) ==
    LET run == CHOOSE r \in (1..Len(id)) \X (1..Len(id)) :
                   DigitRun(id, r[1], r[2]) /\ \A k \in (r[2] + 1)..Len(id) : ~IsDigit(Chr(id, k))
    IN  ParseInt(SubSeq(id, run[1], run[2]))

\* the number written by the first run of digits
LeadingNumber(id) ==
    LET run == CHOOSE r \in (1..Len(id)) \X (1..Len(id)) :
                   DigitRun(id, r[1], r[2]) /\ \A k \in 1..(r[1] - 1) : ~IsDigit(Chr(id, k))
    IN  ParseInt(SubSeq(id, run[1], run[2]))

C18_DistanceOfTrailingRuns ==
    (pc = "distance" /\ id_distance # <<>>) =>
        IF HasDigit(body_id) /\ HasDigit(headline_id)
        THEN /\ ~id_distance[1].inf
             /\ id_distance[1].val
                    = AbsDiff(TrailingNumber(body_id), TrailingNumber(headline_id))
        ELSE id_distance[1].inf

(***************************************************************************)
(* C18, amended: the id distance is the absolute difference of the numbers *)
(* formed by the first run of digits of each id (2899 for u2899d), and it  *)
(* is infinite when either id has no digit.                                *)
(***************************************************************************)
C18_DistanceOfLeadingRuns ==
    (pc = "distance" /\ id_distance # <<>>) =>
        IF HasDigit(body_id) /\ HasDigit(headline_id)
        THEN /\ ~id_distance[1].inf
             /\ id_distance[1].val
                    = AbsDiff(LeadingNumber(body_id), LeadingNumber(headline_id))
        ELSE id_distance[1].inf

\* the distance of an id with two runs of digits, whose first run and last run
\* write different numbers, from an id with one run
C18_Witness ==
    /\ pc = "distance"
    /\ id_distance # <<>>
    /\ HasDigit(body_id) /\ HasDigit(headline_id)
    /\ LeadingNumber(body_id) # TrailingNumber(body_id)
    /\ LeadingNumber(headline_id) = TrailingNumber(headline_id)
    /\ id_distance[1].val = AbsDiff(LeadingNumber(body_id), LeadingNumber(headline_id))
    /\ id_distance[1].val # AbsDiff(TrailingNumber(body_id), TrailingNumber(headline_id))


(***************************************************************************)
(* C19: the pre-filter discards a dateline story for every day of the      *)
(* week: a story whose raw content is an upper-case weekday name, a comma, *)
(* any text and a final four-digit year is treated as metadata and is in   *)
(* no article.                                                             *)
(***************************************************************************)
WeekdayDateline(text) ==
    /\ \E day \in Weekdays : LitAt(text, 1, day \o ",")
    /\ Len(text) >= 4
    /\ \A k \in (Len(text) - 3)..Len(text) : IsDigit(Chr(text, k))

C19_DatelineDiscarded ==
    Done =>
        \A j \in 1..Len(zip_file) :
            (IsMarker(zip_file[j]) /\ WeekdayDateline(MarkerText(zip_file[j]))) =>
                /\ _is_metadata_content(MarkerText(zip_file[j]))
                /\ ~InSomeArticle(zip_file[j].Self)


(***************************************************************************)
(* C21: in _parse_news_story a line break flushes the non-empty paragraph  *)
(* buffer as a new entry of paragraphs and leaves the paragraph index      *)
(* unchanged: the elements of the k-th paragraph container all carry the   *)
(* index k, before and after a line break, so the indices are              *)
(* non-decreasing in element order; the entries of paragraphs are the      *)
(* texts of each container between its line breaks, joined by a space.     *)
(***************************************************************************)
\* the children of a paragraph container, over all its character ranges
RECURSIVE ChildrenOf(_, _)
ChildrenOf(para_range, r) ==
    IF r > Len(para_range) THEN <<>>
    ELSE para_range[r].children \o ChildrenOf(para_range, r + 1)

IsText(child) == child.tag = "Content" /\ Strip(child.text) # ""

\* the index of each text node of the markup, container by container
RECURSIVE IndicesAsStated(_, _)
IndicesAsStated(paras, p) ==
    IF p > Len(paras) THEN <<>>
    ELSE [k \in 1..Cardinality({c \in 1..Len(ChildrenOf(paras[p], 1)) :
                                   IsText(ChildrenOf(paras[p], 1)[c])}) |-> p]
             \o IndicesAsStated(paras, p + 1)

\* the texts of children[from..] up to the next line break
RECURSIVE SegmentTexts(_, _)
SegmentTexts(children, from) ==
    IF from > Len(children) \/ children[from].tag = "Br" THEN <<>>
    ELSE (IF IsText(children[from]) THEN <<Strip(children[from].text)>> ELSE <<>>)
             \o SegmentTexts(children, from + 1)

\* the non-empty segments of a container, each joined by a space
RECURSIVE SegmentsOf(_, _)
SegmentsOf(children, from) ==
    IF from > Len(children) THEN <<>>
    ELSE IF from > 1 /\ children[from - 1].tag # "Br" THEN SegmentsOf(children, from + 1)
    ELSE (IF SegmentTexts(children, from) # <<>>
          THEN <<Join(SegmentTexts(children, from), " ")>> ELSE <<>>)
             \o SegmentsOf(children, from + 1)

RECURSIVE ParagraphsAsStated(_, _)
ParagraphsAsStated(paras, p) ==
    IF p > Len(paras) THEN <<>>
    ELSE SegmentsOf(ChildrenOf(paras[p], 1), 1) \o ParagraphsAsStated(paras, p + 1)

Parsed == pc = "parsing" /\ story_data # <<>> /\ story_data.kind = "dict"

ElementIndices ==
    [k \in 1..Len(story_data.dict.content_elements) |->
        story_data.dict.content_elements[k].paragraph_range_index]

C21_LineBreakKeepsIndex ==
    Parsed =>
        /\ ElementIndices = IndicesAsStated(story_xml.paras, 1)
        /\ \A k \in 1..(Len(ElementIndices) - 1) : ElementIndices[k] <= ElementIndices[k + 1]
        /\ story_data.dict.paragraphs = ParagraphsAsStated(story_xml.paras, 1)

\* a container with text before and after a line break, followed by another
\* container with text: three elements with the indices 1, 1, 2
C21_Witness ==
    /\ Parsed
    /\ Len(story_xml.paras) = 2
    /\ story_xml.paras[1][1].children = <<Content("One"), Br, Content("two")>>
    /\ ElementIndices = <<1, 1, 2>>
    /\ story_data.dict.paragraphs = <<"One", "two", "One">>


(***************************************************************************)
(* C22: _group_elements_by_paragraph partitions the element sequence into  *)
(* maximal contiguous runs of equal paragraph_range_index: every group is  *)
(* non-empty, the elements of a group have the same index, two adjacent    *)
(* groups have different indices, and the groups concatenated in order are *)
(* the input sequence.                                                     *)
(***************************************************************************)
RECURSIVE Concatenated(_, _)
Concatenated(groups, g) ==
    IF g > Len(groups) THEN <<>> ELSE groups[g] \o Concatenated(groups, g + 1)

Grouped == Parsed /\ paragraph_groups # <<>>

C22_GroupsAreMaximalRuns ==
    Grouped =>
        /\ \A g \in 1..Len(paragraph_groups) :
              /\ paragraph_groups[g] # <<>>
              /\ \A k \in 1..Len(paragraph_groups[g]) :
                    paragraph_groups[g][k].paragraph_range_index
                        = paragraph_groups[g][1].paragraph_range_index
        /\ \A g \in 1..(Len(paragraph_groups) - 1) :
              paragraph_groups[g][1].paragraph_range_index
                  # paragraph_groups[g + 1][1].paragraph_range_index
        /\ Concatenated(paragraph_groups, 1) = story_data.dict.content_elements

\* three groups, the second of two elements
C22_Witness ==
    /\ Grouped
    /\ Len(paragraph_groups) = 3
    /\ Len(paragraph_groups[1]) = 1
    /\ Len(paragraph_groups[2]) = 2
    /\ Len(story_data.dict.content_elements) = 4


(***************************************************************************)
(* C23: in _clean_content_text, when an author was extracted, the first    *)
(* paragraph is in the plain content, with the author span removed, only   *)
(* if more than 10 characters remain after removal and trimming, and is    *)
(* dropped otherwise; every later non-empty paragraph is in it unchanged   *)
(* and in order.  When no author was extracted every non-empty paragraph   *)
(* is in it, the first included.                                           *)
(***************************************************************************)
Cleaned == pc = "clean" /\ plain_content # <<>>

AuthorOf(story) == _extract_author_from_body(story)

\* the first paragraph without the author span, trimmed
FirstWithoutAuthor(story) ==
    Strip(_remove_exact_author_from_paragraph(Strip(story.paragraphs[1]), AuthorOf(story)))

LaterOf(story) ==
    SelectSeq(SubSeq(story.paragraphs, 2, Len(story.paragraphs)), LAMBDA para : para # "")

ContentAsStated(story) ==
    IF AuthorOf(story) # ""
    THEN (IF Len(FirstWithoutAuthor(story)) > 10 THEN <<FirstWithoutAuthor(story)>> ELSE <<>>)
             \o LaterOf(story)
    ELSE SelectSeq(story.paragraphs, LAMBDA para : para # "")

C23_FirstParagraphThreshold ==
    Cleaned => plain_content[1] = Join(ContentAsStated(clean_story), "\n")

\* an author was extracted, exactly 11 characters remain, and a later paragraph follows
C23_Witness ==
    /\ Cleaned
    /\ clean_story.paragraphs = <<"John Doe, Lagos Eleven char", "The vote was 7-2.">>
    /\ AuthorOf(clean_story) = "John Doe"
    /\ plain_content[1] = "Eleven char\nThe vote was 7-2."


(***************************************************************************)
(* C24: when no headline is matched for a body story, the headline of its  *)
(* article is the text of the first bold element of the body with font     *)
(* size above 10 and fewer than 100 characters; without such an element it *)
(* is the first paragraph up to its first period, cut to 100 characters    *)
(* and an ellipsis when longer.  headline_story_id is then empty and       *)
(* has_matching_headline is false.                                         *)
(***************************************************************************)
BoldLeads(story) ==
    {k \in 1..Len(story.content_elements) :
        /\ story.content_elements[k].is_bold
        /\ story.content_elements[k].font_size > 10
        /\ Len(story.content_elements[k].text) < 100}

BeforePeriod(text) ==
    IF \E k \in 1..Len(text) : Chr(text, k) = "."
    THEN SubSeq(text, 1, (CHOOSE k \in 1..Len(text) :
                             /\ Chr(text, k) = "."
                             /\ \A j \in 1..(k - 1) : Chr(text, j) # ".") - 1)
    ELSE text

HeadlineAsStated(story) ==
    IF BoldLeads(story) # {}
    THEN story.content_elements[CHOOSE k \in BoldLeads(story) :
                                   \A m \in BoldLeads(story) : k <= m].text
    ELSE IF Len(BeforePeriod(story.paragraphs[1])) > 100
    THEN SubSeq(BeforePeriod(story.paragraphs[1]), 1, 100) \o "..."
    ELSE BeforePeriod(story.paragraphs[1])

\* the article of the k-th body story is the k-th article
C24_FallbackHeadline ==
    \A k \in Articles :
        (matched_articles[k].article_type = "news_article"
           /\ ~(\E h \in 1..Len(headlines) :
                   headlines[h].story_id = matched_articles[k].headline_story_id)) =>
            /\ matched_articles[k].story_id = body_stories[k].story_id
            /\ matched_articles[k].headline = HeadlineAsStated(body_stories[k])
            /\ matched_articles[k].headline_story_id = ""
            /\ ~matched_articles[k].has_matching_headline

\* the second bold element is taken (the first has size 10), next to a
\* body whose 101 characters are cut to 100 and an ellipsis
C24_Witness ==
    /\ Done
    /\ Len(matched_articles) = 2
    /\ matched_articles[1].story_id = "u22"
    /\ matched_articles[1].headline = "Budget approved"
    /\ matched_articles[1].headline_story_id = ""
    /\ matched_articles[2].story_id = "u27"
    /\ matched_articles[2].headline = LongText100 \o "..."
    /\ ~matched_articles[2].has_matching_headline


(***************************************************************************)
(* C25: after clear_cache the next fetch_all_categories and the next       *)
(* fetch_all_authors each ask WordPress again instead of returning the     *)
(* value cached before; between a successful fetch and the next            *)
(* clear_cache, every further fetch returns the cached value and sends no  *)
(* request.                                                                *)
(***************************************************************************)
Fetches == {"fetch_all_categories", "fetch_all_authors"}

CallsMade == 1..Len(call_log)

\* no call of the given kind strictly between the calls j and k
NoneBetween(op, j, k) == \A m \in (j + 1)..(k - 1) : call_log[m].op # op

C25_FetchAfterClear ==
    \A k \in CallsMade : \A j \in 1..(k - 1) :
        (call_log[k].op \in Fetches /\ call_log[j].op = "clear_cache"
           /\ NoneBetween(call_log[k].op, j, k) /\ NoneBetween("clear_cache", j, k)) =>
            call_log[k].requests > 0

C25_CachedUntilClear ==
    \A k \in CallsMade : \A j \in 1..(k - 1) :
        (call_log[k].op \in Fetches /\ call_log[j].op = call_log[k].op
           /\ ~call_log[j].raised /\ NoneBetween("clear_cache", j, k)) =>
            /\ call_log[k].requests = 0
            /\ call_log[k].result = call_log[j].result

C25_ClearCacheRefetches ==
    pc = "cache" => C25_FetchAfterClear /\ C25_CachedUntilClear

\* the categories are fetched, returned from the cache, cleared, and fetched
\* again with another answer
C25_Witness ==
    /\ pc = "cache"
    /\ Len(call_log) = 4
    /\ call_log[1].op = "fetch_all_categories" /\ call_log[1].requests = 1
    /\ ~call_log[1].raised
    /\ call_log[2].op = "fetch_all_categories" /\ call_log[2].requests = 0
    /\ call_log[2].result = call_log[1].result
    /\ call_log[3].op = "clear_cache"
    /\ call_log[4].op = "fetch_all_categories" /\ call_log[4].requests = 1
    /\ ~call_log[4].raised
    /\ call_log[4].result # call_log[1].result

(***************************************************************************)
(* C30: a failed WordPress fetch is never cached.  A fetch_all_categories  *)
(* or fetch_all_authors that fails returns an empty result, leaves its     *)
(* cache unset and the other cache as it was, so that the next call sends  *)
(* the request again; a cache that is set holds the result of a successful *)
(* fetch.                                                                  *)
(***************************************************************************)
EmptyResult(op) == IF op = "fetch_all_categories" THEN NoCategories ELSE EmptyDict

CacheOf(op) == IF op = "fetch_all_categories" THEN _CATEGORIES_CACHE ELSE _AUTHORS_CACHE

C30_FailureReturnsEmpty ==
    \A k \in CallsMade :
        (call_log[k].op \in Fetches /\ call_log[k].raised) =>
            /\ call_log[k].result = EmptyResult(call_log[k].op)
            /\ call_log[k].requests > 0

C30_RetryAfterFailure ==
    \A k \in CallsMade : \A j \in 1..(k - 1) :
        (call_log[k].op \in Fetches /\ call_log[j].op = call_log[k].op
           /\ call_log[j].raised /\ NoneBetween(call_log[k].op, j, k)) =>
            call_log[k].requests > 0

C30_CacheHoldsSuccessfulFetch ==
    \A op \in Fetches :
        CacheOf(op) # NoneResult =>
            \E k \in CallsMade :
                /\ call_log[k].op = op
                /\ ~call_log[k].raised
                /\ call_log[k].requests > 0
                /\ CacheOf(op) = Dict(call_log[k].result)

\* the step of a call that fails
C30_FailureLeavesCaches ==
    (pc = "cache" /\ Len(call_log') = Len(call_log) + 1 /\ call_log'[Len(call_log')].raised) =>
        /\ CacheOf(call_log'[Len(call_log')].op) = NoneResult
        /\ UNCHANGED <<_CATEGORIES_CACHE, _AUTHORS_CACHE>>

C30_FailureNeverCached ==
    /\ [](pc = "cache" => /\ C30_FailureReturnsEmpty
                          /\ C30_RetryAfterFailure
                          /\ C30_CacheHoldsSuccessfulFetch)
    /\ [][C30_FailureLeavesCaches]_vars

\* the categories are cached, the second page of the authors fails, and the
\* next fetch_all_authors asks again and succeeds
C30_Witness ==
    /\ pc = "cache"
    /\ Len(call_log) = 3
    /\ call_log[1].op = "fetch_all_categories" /\ ~call_log[1].raised
    /\ call_log[2].op = "fetch_all_authors" /\ call_log[2].raised
    /\ call_log[2].requests = 2
    /\ call_log[3].op = "fetch_all_authors" /\ ~call_log[3].raised
    /\ call_log[3].requests = 2
    /\ _CATEGORIES_CACHE = Dict(call_log[1].result)
    /\ _AUTHORS_CACHE = Dict(call_log[3].result)
    /\ DOMAIN call_log[3].result = {"desk", "jane roe"}


(***************************************************************************)
(* C26: a headline-shaped story of one paragraph, one run and one text of  *)
(* at most 30 characters of the category charset is a valid marker too:    *)
(* among the leading consecutive markers its text is appended to the       *)
(* document category and the story is left out, so it is neither emitted   *)
(* as a headline nor matched to a body.                                    *)
(***************************************************************************)
\* the story at position j would be classified a headline if it were parsed
HeadlineShapedMarker(j) ==
    /\ ValidMarker(zip_file[j])
    /\ _parse_news_story(zip_file[j], StoryFile(j - 1)).kind = "dict"
    /\ _determine_story_type(_parse_news_story(zip_file[j], StoryFile(j - 1)).dict)
           = "headline"

DistanceTo(k) == _calculate_id_distance(body_stories[b].story_id, headlines[k].story_id)

\* the first of the headlines whose score is the maximum
FirstBest(scores, k) == k \in Best(scores) /\ \A m \in Best(scores) : k <= m

IsReturned(returned, k) == returned.found /\ returned.headline = headlines[k]

ProximityAsStated(returned, content, combined) ==
    \A k \in Unused :
        content[k].n = 0 =>
            /\ (~DistanceTo(k).inf /\ DistanceTo(k).val <= 66 /\ FirstBest(combined, k))
                   => IsReturned(returned, k)
            /\ (DistanceTo(k).inf \/ DistanceTo(k).val >= 67) => ~IsReturned(returned, k)

ProximityByScores(returned, content) ==
    ProximityAsStated(returned, content, CombinedScores(content))

C27_ProximityAlone == Matching => ProximityByScores(Returned, ContentScores)

(***************************************************************************)
(* C27, amended: the same, provided no unused headline has a content       *)
(* similarity of 2 or more; such a headline is returned by the first       *)
(* strategy before the combined score is looked at.                        *)
(***************************************************************************)
ProximityUnlessContent(returned, content, combined) ==
    \A k \in Unused :
        content[k].n = 0 =>
            /\ ( /\ ~DistanceTo(k).inf /\ DistanceTo(k).val <= 66
                 /\ FirstBest(combined, k)
                 /\ \A m \in Unused : RatLess(content[m], Rat(2, 1)) )
                   => IsReturned(returned, k)
            /\ (DistanceTo(k).inf \/ DistanceTo(k).val >= 67) => ~IsReturned(returned, k)

ProximityUnlessContentByScores(returned, content) ==
    ProximityUnlessContent(returned, content, CombinedScores(content))

C27_ProximityWithoutContentMatch ==
    Matching => ProximityUnlessContentByScores(Returned, ContentScores)

\* the body u100 with the unused headlines u166 and u167, both with content
\* similarity 0: u166, at distance 66, is returned
C27_Witness ==
    /\ Matching
    /\ body_stories[b].story_id = "u100"
    /\ {headlines[k].story_id : k \in Unused} = {"u166", "u167"}
    /\ \A k \in Unused : ContentScores[k].n = 0
    /\ Returned.found
    /\ Returned.headline.story_id = "u166"


(***************************************************************************)
(* C28: ties in headline matching are broken by document order.  When      *)
(* several unused headlines have the same maximum content similarity       *)
(* (strategy 1) or the same maximum combined score (strategy 3), the first *)
(* of them in the headline list is chosen; and when two body stories would *)
(* both choose the same headline, the earlier body story gets it.          *)
(***************************************************************************)
TiesAsStated(returned, content, combined) ==
    IF \E k \in Best(content) : RatLeq(Rat(2, 1), content[k])
    THEN \A k \in Unused : FirstBest(content, k) => IsReturned(returned, k)
    ELSE IF \E k \in Best(combined) : RatLeq(Rat(1, 1), combined[k])
    THEN \A k \in Unused : FirstBest(combined, k) => IsReturned(returned, k)
    ELSE TRUE

TiesByScores(returned, content) == TiesAsStated(returned, content, CombinedScores(content))

C28_FirstOfTheBest == Matching => TiesByScores(Returned, ContentScores)

\* what a later body story would choose in the place of the one at hand
WouldChoose(y) == _find_matching_headline(body_stories[y], headlines, used_headlines)

LaterBodies == (b + 1)..Len(body_stories)

\* the body story at hand gets the headline it chooses, whichever later body
\* story would choose it too
C28_EarlierBodyGets ==
    (Matching /\ b' = b + 1 /\ Returned.found) =>
        /\ matched_articles'[b].story_id = body_stories[b].story_id
        /\ matched_articles'[b].headline_story_id = Returned.headline.story_id
        /\ \A y \in LaterBodies :
              WouldChoose(y) = Returned =>
                  /\ Returned.headline.story_id \in used_headlines'
                  /\ ~\E k \in 1..Len(headlines) :
                         /\ headlines[k].story_id \notin used_headlines'
                         /\ headlines[k] = Returned.headline

\* and no later body story is given a headline an earlier one has
C28_LaterBodyDoesNot ==
    Matching =>
        \A x \in 1..(b - 1) :
            matched_articles[x].headline_story_id # ""
                => ~(Returned.found
                     /\ Returned.headline.story_id = matched_articles[x].headline_story_id)

C28_TiesByDocumentOrder ==
    /\ [](C28_FirstOfTheBest /\ C28_LaterBodyDoesNot)
    /\ [][C28_EarlierBodyGets]_vars

\* two body stories and two headlines with the same content similarity of 2.5
\* to either: both bodies would choose the first headline, the first body has
\* it and the second body is given the other one
C28_Witness ==
    /\ Matching
    /\ b = 2
    /\ Len(headlines) = 2
    /\ \A y \in 1..2 :
          _find_matching_headline(body_stories[y], headlines, {}) = Found(headlines[1])
    /\ matched_articles[1].headline_story_id = headlines[1].story_id
    /\ ContentScores[2] = Rat(5, 2)
    /\ Returned = Found(headlines[2])


(***************************************************************************)
(* C29: the output list is ordered.  All news_article records come first,  *)
(* in the document order of their body stories, followed by all            *)
(* standalone_headline records, in the document order of their headline    *)
(* stories.                                                                *)
(***************************************************************************)
\* the place of a story among the story files of the document
FilePosition(story_id) == CHOOSE j \in 1..Len(zip_file) : zip_file[j].Self = story_id

TypeOf(k) == matched_articles[k].article_type

C29_OutputOrdered ==
    \A x, y \in Articles :
        x < y =>
            /\ TypeOf(x) \in {"news_article", "standalone_headline"}
            /\ TypeOf(y) \in {"news_article", "standalone_headline"}
            /\ TypeOf(x) = "standalone_headline" => TypeOf(y) = "standalone_headline"
            /\ TypeOf(x) = TypeOf(y) =>
                   FilePosition(matched_articles[x].story_id)
                       < FilePosition(matched_articles[y].story_id)

\* a document of body, headline, body, headline in which no headline is
\* matched: the list returned is the two bodies and then the two headlines
C29_Witness ==
    /\ pc = "done"
    /\ Len(matched_articles) = 4
    /\ [k \in 1..4 |-> FilePosition(matched_articles[k].story_id)] = <<1, 3, 2, 4>>
    /\ [k \in 1..4 |-> TypeOf(k)] = <<"news_article", "news_article",
                                      "standalone_headline", "standalone_headline">>

=============================================================================
